---- MODULE Spec2Model ----
(***************************************************************************)
(* Sentinel: the triage orchestration pipeline (TriageOrchestrator), its   *)
(* guardrail (withTimeout / runAgent), the event dispatch of SseService    *)
(* and the deterministic scoring engine FraudAgent.analyze.                *)
(*                                                                         *)
(* Conventions.  A JavaScript value that may be undefined/null is a        *)
(* sequence of length 0 (absent) or 1 (present); an optional string field  *)
(* is the string "undefined" when absent.  Timestamps are in minutes.      *)
(***************************************************************************)
EXTENDS Integers, Sequences, FiniteSets, TLC

(***************************************************************************)
(* Small helpers on sequences.                                             *)
(***************************************************************************)
Some(v) == <<v>>
None == <<>>
IsSome(o) == Len(o) > 0

RECURSIVE SumSeq(_)
SumSeq(s) == IF Len(s) = 0 THEN 0 ELSE Head(s) + SumSeq(Tail(s))

RECURSIVE FilterSeq(_, _)
\* Array.prototype.filter with the predicate given as the set of kept values
FilterSeq(s, keep) ==
  IF Len(s) = 0 THEN <<>>
  ELSE IF Head(s) \in keep THEN <<Head(s)>> \o FilterSeq(Tail(s), keep)
       ELSE FilterSeq(Tail(s), keep)

Range(s) == {s[i] : i \in 1..Len(s)}
Abs(n) == IF n < 0 THEN -n ELSE n
\* the whole array
Slice0_whole(s, n) == s
\* Array.prototype.slice(0, n)
Slice0(s, n) == SubSeq(s, 1, IF Len(s) < n THEN Len(s) ELSE n)

(***************************************************************************)
(* Program constants.                                                      *)
(***************************************************************************)
TimeoutMs == 1000            \* runAgent: withTimeout(() => fn(), 1000, fallback)
SimulatedDelayMs == 100      \* FraudAgent.analyze: setTimeout(reject, 100)
HighAmountCents == 100000    \* Rule 1 and the MEDIUM action choice
DuplicateToleranceCents == 100
FiveMinutes == 5
OneHour == 60
OneDay == 1440
NinetyDays == 129600
Velocity5MinMax == 3
VelocityHourMax == 10
VelocityDayMax == 30
DeviceLookback == 5
CountrySpreadMin == 3
KbTake == 3
HighTally == 60
MediumTally == 30
DisputeTally == 40

(***************************************************************************)
(* Transactions (src/api/seed_acceptance.ts) and the windows of the runs.  *)
(***************************************************************************)
Txn(id, merchant, mcc, amount, ts, device, country, sim) ==
  [id |-> id, merchant |-> merchant, mcc |-> mcc, amount_cents |-> amount,
   ts |-> ts, device_id |-> device, country |-> country,
   simulate_risk_timeout |-> sim]

txn_otp       == Txn("txn_acceptance_01_otp", "BetKing Casino", "7995", 150000, 10185, "device_new_suspicious", "MT", FALSE)
txn_dispute   == Txn("txn_acceptance_02_dispute", "ABC Mart", "5411", 499900, 10000, "dev_b2c5", "IN", FALSE)
txn_preauth   == Txn("txn_acceptance_03_duplicate_preauth", "QuickCab", "4121", 35000, 10110, "dev_d95a", "IN", FALSE)
txn_capture   == Txn("txn_acceptance_03_duplicate_capture", "QuickCab", "4121", 35000, 10125, "dev_d95a", "IN", FALSE)
txn_timeout   == Txn("txn_acceptance_04_timeout", "TechZone", "5732", 89900, 10230, "dev_98dc", "IN", TRUE)
txn_cafe      == Txn("txn_acceptance_05_ratelimit", "The Corner Cafe", "5814", 25000, 10305, "dev_ab93", "IN", FALSE)
txn_grocery   == Txn("txn_acceptance_07_performance", "Daily Groceries", "5411", 15000, 10100, "dev_21fc", "IN", FALSE)
\* the simulation flag on a transaction the scoring rules would rate HIGH
txn_timeout_risky == Txn("txn_timeout_risky", "BetKing Casino", "7995", 150000, 10400, "device_new_suspicious", "MT", TRUE)
\* an earlier charge of the same merchant, within the duplicate tolerance
txn_dispute_twin == Txn("txn_dispute_twin", "ABC Mart", "5411", 499950, 9990, "dev_b2c5", "IN", FALSE)
\* a transaction with no merchant name
txn_nomerchant == Txn("txn_nomerchant", "", "5814", 25000, 10050, "null", "IN", FALSE)

\* A dispute case of the customer (prisma.case rows)
Case(type, created_at) == [type |-> type, created_at |-> created_at]

\* One run's input: the orchestrator's initial state (alert.suspect_txn,
\* recentTx ordered by ts desc), the customer's cases and the wall clock.
Scenario(suspect, recentTx, cases) ==
  [suspect_txn |-> suspect, recentTx |-> recentTx, cases |-> cases, clock |-> 10500]

Scenarios ==
  { Scenario(None, <<>>, <<>>),
    Scenario(None, <<txn_cafe, txn_grocery>>, <<>>),
    Scenario(Some(txn_otp), <<txn_cafe, txn_otp, txn_grocery>>, <<>>),
    Scenario(Some(txn_dispute), <<txn_dispute>>, <<Case("DISPUTE", 10400)>>),
    Scenario(Some(txn_dispute), <<txn_dispute, txn_dispute_twin>>, <<>>),
    Scenario(Some(txn_capture), <<txn_capture, txn_preauth>>, <<>>),
    Scenario(Some(txn_timeout), <<txn_cafe, txn_timeout>>, <<>>),
    Scenario(Some(txn_timeout_risky), <<txn_timeout_risky, txn_cafe, txn_grocery>>, <<>>),
    Scenario(Some(txn_nomerchant), <<txn_nomerchant>>, <<>>) }

(***************************************************************************)
(* FraudAgent.analyze                                                      *)
(***************************************************************************)
Report(score, reasons, action, reasonCode, fallback_used) ==
  [score |-> score, reasons |-> reasons, recommendedAction |-> action,
   reasonCode |-> reasonCode, fallback_used |-> fallback_used]

\* the home country with ties going to the country seen last
homeCountry_lastSeen(transactions) ==
  LET n == Len(transactions)
      count(c) == Cardinality({i \in 1..n : transactions[i].country = c})
      last(c) == CHOOSE i \in 1..n :
                   /\ transactions[i].country = c
                   /\ \A j \in (i+1)..n : transactions[j].country # c
      cs == {transactions[i].country : i \in 1..n}
  IN IF n = 0 THEN "IN"
     ELSE CHOOSE c \in cs : \A d \in cs \ {c} :
            \/ count(c) > count(d)
            \/ (count(c) = count(d) /\ last(c) > last(d))

\* countryFrequency (a Map: keys in first-seen order), sorted by count desc
\* with a stable sort, first entry; 'IN' when the window is empty
homeCountry(transactions) ==
  LET n == Len(transactions)
      count(c) == Cardinality({i \in 1..n : transactions[i].country = c})
      first(c) == CHOOSE i \in 1..n :
                    /\ transactions[i].country = c
                    /\ \A j \in 1..(i-1) : transactions[j].country # c
      cs == {transactions[i].country : i \in 1..n}
  IN IF n = 0 THEN "IN"
     ELSE CHOOSE c \in cs : \A d \in cs \ {c} :
            \/ count(c) > count(d)
            \/ (count(c) = count(d) /\ first(c) < first(d))

\* the window without its far edge and with the transactions after now
inWindow_openStart(transactions, now, w) ==
  FilterSeq(transactions, {t \in Range(transactions) : t.ts > now - w})
\* transactions.filter(t => t.ts >= now - w && t.ts <= now)
inWindow(transactions, now, w) ==
  FilterSeq(transactions, {t \in Range(transactions) : t.ts >= now - w /\ t.ts <= now})

riskyMCCs == {"7995", "7800", "5967"}

\* merchant.toUpperCase().includes(am) for the ambiguousMerchants fragments,
\* tabulated for the merchant names of the model
ambiguousMerchant(merchant) == merchant \in {"PayPal *TEMP* Store"}

Rule(reason, points) == [reason |-> reason, points |-> points]

\* The rules that fire, in evaluation order, each with its reason and points
firedRules(transactions, alertTxn, chargebackHistory, clock) ==
  LET now == alertTxn.ts
      rule1 == IF alertTxn.amount_cents > HighAmountCents
               THEN <<Rule("High transaction amount", 30)>> ELSE <<>>
      rule2a == IF Len(inWindow(transactions, now, FiveMinutes)) > Velocity5MinMax
                THEN <<Rule("High velocity attack: txns in 5 min", 50)>> ELSE <<>>
      rule2b == IF Len(inWindow(transactions, now, OneHour)) > VelocityHourMax
                THEN <<Rule("High velocity: txns in 1 hour", 35)>> ELSE <<>>
      rule2c == IF Len(inWindow(transactions, now, OneDay)) > VelocityDayMax
                THEN <<Rule("Unusual daily velocity: txns today", 20)>> ELSE <<>>
      prior == Slice0(FilterSeq(transactions, {t \in Range(transactions) : t.ts < now}),
                      DeviceLookback)
      recentDevices == FilterSeq([i \in 1..Len(prior) |-> prior[i].device_id],
                                 {d \in {prior[i].device_id : i \in 1..Len(prior)} : d # "null"})
      rule3 == IF /\ alertTxn.device_id \notin {"null", ""}
                  /\ Len(recentDevices) > 0
                  /\ alertTxn.device_id # recentDevices[1]
                  /\ \A i \in 1..Len(recentDevices) : recentDevices[i] = recentDevices[1]
               THEN <<Rule("New device detected - potential account takeover risk", 35)>>
               ELSE <<>>
      day == inWindow(transactions, now, OneDay)
      countriesLast24h == {day[i].country : i \in 1..Len(day)} \cup {alertTxn.country}
      rule4 == IF Cardinality(countriesLast24h) >= CountrySpreadMin
               THEN <<Rule("Foreign transactions in several countries within 24h", 40)>>
               ELSE <<>>
      rule5 == IF alertTxn.mcc \in riskyMCCs
               THEN <<Rule("Unusual MCC", 25)>> ELSE <<>>
      rule6 == IF alertTxn.country # homeCountry(transactions)
               THEN <<Rule("Foreign transaction", 20)>> ELSE <<>>
      recentChargebacks ==
        FilterSeq(chargebackHistory,
                  {c \in Range(chargebackHistory) :
                     c.type = "DISPUTE" /\ c.created_at > clock - NinetyDays})
      rule7 == IF Len(chargebackHistory) > 0 /\ Len(recentChargebacks) >= 3
               THEN <<Rule("Customer has chargebacks in last 90 days", 40)>>
               ELSE IF Len(chargebackHistory) > 0 /\ Len(recentChargebacks) > 0
               THEN <<Rule("Customer has chargeback history", 15)>>
               ELSE <<>>
      merchantHistory ==
        FilterSeq(transactions,
                  {t \in Range(transactions) : t.merchant = alertTxn.merchant})
      total == SumSeq([i \in 1..Len(merchantHistory) |-> merchantHistory[i].amount_cents])
      \* |amount - avg| < avg * 0.1 with avg = total / length, in integers
      isRecurring ==
        Abs(alertTxn.amount_cents * Len(merchantHistory) - total) * 10 < total
      rule8 == IF Len(merchantHistory) >= 2 /\ isRecurring /\ Len(merchantHistory) >= 3
               THEN <<Rule("Potential subscription charge from merchant", 0)>>
               ELSE <<>>
      rule9 == IF ambiguousMerchant(alertTxn.merchant)
               THEN <<Rule("Ambiguous merchant name - difficult to verify legitimacy", 15)>>
               ELSE <<>>
  IN rule1 \o rule2a \o rule2b \o rule2c \o rule3 \o rule4 \o rule5 \o rule6
       \o rule7 \o rule8 \o rule9

\* the search for the capitalised word
includesSubscription_capitalised(r) == r = "Potential Subscription charge from merchant"
\* r.includes('subscription') for the reason strings of the engine
includesSubscription(r) == r = "Potential subscription charge from merchant"

\* the scoring without the sentinel reason
scoreRules_noSentinel(transactions, alertTxn, chargebackHistory, clock) ==
  LET fired == firedRules(transactions, alertTxn, chargebackHistory, clock)
      score == SumSeq([i \in 1..Len(fired) |-> fired[i].points])
      reasons == [i \in 1..Len(fired) |-> fired[i].reason]
      isLikelySubscription == \E i \in 1..Len(reasons) : includesSubscription(reasons[i])
  IN IF score >= HighTally
     THEN Report("HIGH", reasons, "FREEZE_CARD", "undefined", None)
     ELSE IF score >= MediumTally
     THEN Report("MEDIUM", reasons,
                 IF alertTxn.amount_cents > HighAmountCents \/ score >= DisputeTally
                 THEN "OPEN_DISPUTE" ELSE "FREEZE_CARD",
                 "10.4", None)
     ELSE Report("LOW", reasons,
                 IF isLikelySubscription THEN "OPEN_DISPUTE" ELSE "NONE",
                 IF isLikelySubscription THEN "13.7" ELSE "undefined", None)

\* the scoring with a tally above 100 taken as invalid and rated LOW
scoreRules_cappedTally(transactions, alertTxn, chargebackHistory, clock) ==
  LET fired == firedRules(transactions, alertTxn, chargebackHistory, clock)
      score == SumSeq([i \in 1..Len(fired) |-> fired[i].points])
      rs == [i \in 1..Len(fired) |-> fired[i].reason]
      reasons == IF Len(rs) = 0 THEN <<"No issues found.">> ELSE rs
      isLikelySubscription == \E i \in 1..Len(reasons) : includesSubscription(reasons[i])
  IN IF score >= HighTally /\ score <= 100
     THEN Report("HIGH", reasons, "FREEZE_CARD", "undefined", None)
     ELSE IF score >= MediumTally /\ score <= 100
     THEN Report("MEDIUM", reasons,
                 IF alertTxn.amount_cents > HighAmountCents \/ score >= DisputeTally
                 THEN "OPEN_DISPUTE" ELSE "FREEZE_CARD",
                 "10.4", None)
     ELSE Report("LOW", reasons,
                 IF isLikelySubscription THEN "OPEN_DISPUTE" ELSE "NONE",
                 IF isLikelySubscription THEN "13.7" ELSE "undefined", None)

\* the scoring with the HIGH threshold compared strictly
scoreRules_strictHigh(transactions, alertTxn, chargebackHistory, clock) ==
  LET fired == firedRules(transactions, alertTxn, chargebackHistory, clock)
      score == SumSeq([i \in 1..Len(fired) |-> fired[i].points])
      rs == [i \in 1..Len(fired) |-> fired[i].reason]
      reasons == IF Len(rs) = 0 THEN <<"No issues found.">> ELSE rs
      isLikelySubscription == \E i \in 1..Len(reasons) : includesSubscription(reasons[i])
  IN IF score > HighTally
     THEN Report("HIGH", reasons, "FREEZE_CARD", "undefined", None)
     ELSE IF score >= MediumTally
     THEN Report("MEDIUM", reasons,
                 IF alertTxn.amount_cents > HighAmountCents \/ score >= DisputeTally
                 THEN "OPEN_DISPUTE" ELSE "FREEZE_CARD",
                 "10.4", None)
     ELSE Report("LOW", reasons,
                 IF isLikelySubscription THEN "OPEN_DISPUTE" ELSE "NONE",
                 IF isLikelySubscription THEN "13.7" ELSE "undefined", None)

\* Lines 43-203: the scoring rules and the final score and action
scoreRules(transactions, alertTxn, chargebackHistory, clock) ==
  LET fired == firedRules(transactions, alertTxn, chargebackHistory, clock)
      score == SumSeq([i \in 1..Len(fired) |-> fired[i].points])
      rs == [i \in 1..Len(fired) |-> fired[i].reason]
      reasons == IF Len(rs) = 0 THEN <<"No issues found.">> ELSE rs
      isLikelySubscription == \E i \in 1..Len(reasons) : includesSubscription(reasons[i])
  IN IF score >= HighTally
     THEN Report("HIGH", reasons, "FREEZE_CARD", "undefined", None)
     ELSE IF score >= MediumTally
     THEN Report("MEDIUM", reasons,
                 IF alertTxn.amount_cents > HighAmountCents \/ score >= DisputeTally
                 THEN "OPEN_DISPUTE" ELSE "FREEZE_CARD",
                 "10.4", None)
     ELSE Report("LOW", reasons,
                 IF isLikelySubscription THEN "OPEN_DISPUTE" ELSE "NONE",
                 IF isLikelySubscription THEN "13.7" ELSE "undefined", None)

\* The report the simulated-timeout branch returns from its catch block
simulatedFallbackReport ==
  Report("MEDIUM",
         <<"Risk service unavailable - using fallback heuristics",
           "Transaction amount review recommended">>,
         "OPEN_DISPUTE", "undefined", Some(TRUE))

\* analyze hanging past any budget under the simulation flag
analyze_hangs(transactions, alertTxn, chargebackHistory, clock) ==
  IF alertTxn.simulate_risk_timeout
  THEN [kind |-> "never", at |-> TimeoutMs, value |-> simulatedFallbackReport]
  ELSE [kind |-> "resolve", at |-> 0,
        value |-> scoreRules(transactions, alertTxn, chargebackHistory, clock)]
\* analyze without the simulation branch
analyze_ignoresFlag(transactions, alertTxn, chargebackHistory, clock) ==
  [kind |-> "resolve", at |-> 0,
   value |-> scoreRules(transactions, alertTxn, chargebackHistory, clock)]
\* analyze as a promise: when it settles (ms after the call) and with what.
\* With metadata.simulate_risk_timeout the 100 ms timer rejects, the catch
\* block returns the fallback report; otherwise the rules run synchronously.
analyze(transactions, alertTxn, chargebackHistory, clock) ==
  IF alertTxn.simulate_risk_timeout
  THEN [kind |-> "resolve", at |-> SimulatedDelayMs, value |-> simulatedFallbackReport]
  ELSE [kind |-> "resolve", at |-> 0,
        value |-> scoreRules(transactions, alertTxn, chargebackHistory, clock)]

(***************************************************************************)
(* KBAgent.search over the knowledge-base table.                           *)
(***************************************************************************)
KbDoc(id, title, anchor, content_text) ==
  [id |-> id, title |-> title, anchor |-> anchor, content_text |-> content_text]

kb_preauth == KbDoc("kb_preauth", "Pre-authorization vs capture",
                    "disputes:pre-auth-vs-capture",
                    "A pre-auth hold and the capture of QuickCab rides both show up.")
kb_dispute == KbDoc("kb_dispute", "Raising a chargeback", "disputes:open",
                    "Steps to open a dispute with the card network.")
kb_travel  == KbDoc("kb_travel", "Dispute handling while travelling", "travel:notice",
                    "Travel notices for BetKing Casino and other foreign merchants.")
kb_freeze  == KbDoc("kb_freeze", "Card freeze policy", "cards:freeze",
                    "Unfreeze needs an OTP. Reach us at help@sentinel.com for a dispute.")

\* The contents of the KbDoc table, in the order findMany returns rows
KbStores ==
  { <<>>,
    <<kb_preauth, kb_dispute, kb_travel, kb_freeze>>,
    <<kb_freeze, kb_travel, kb_dispute, kb_preauth>> }

\* { contains: q, mode: 'insensitive' } and toLowerCase().includes(q),
\* tabulated for the texts and queries of the model
containsInsensitive(text, q) ==
  <<text, q>> \in
    { <<kb_preauth.title, "pre-auth">>, <<kb_preauth.content_text, "pre-auth">>,
      <<kb_preauth.content_text, "QuickCab">>,
      <<kb_dispute.content_text, "dispute">>,
      <<kb_travel.title, "dispute">>, <<kb_travel.content_text, "BetKing Casino">>,
      <<kb_freeze.content_text, "dispute">> }

\* every anchor taken as a dispute anchor
startsWithDisputes_anyAnchor(anchor) == TRUE
\* anchor.startsWith('disputes:')
startsWithDisputes(anchor) == anchor \in {kb_preauth.anchor, kb_dispute.anchor}

\* content_text.substring(0, 150) + '...'
extractOf(content_text) ==
  (IF Len(content_text) <= 150 THEN content_text ELSE "<first 150 characters>") \o "..."

KBHit(r) ==
  [docId |-> r.id, title |-> r.title, anchor |-> r.anchor,
   extract |-> extractOf(r.content_text)]

\* KBAgent.search(q): the first KbTake matching rows, mapped to hits
KBAgent_search(store, q) ==
  LET rows == FilterSeq(store,
                {r \in Range(store) :
                   containsInsensitive(r.title, q) \/ containsInsensitive(r.content_text, q)})
      taken == Slice0(rows, KbTake)
  IN [i \in 1..Len(taken) |-> KBHit(taken[i])]

(***************************************************************************)
(* RedactorAgent: PAN-like numbers and e-mail addresses are replaced.      *)
(***************************************************************************)
\* Messages of the errors the awaited steps throw; the driver's message of a
\* failed update names the database user
traceWriteFailed == "trace write failed"
caseReadFailed == "case read failed"
kbValidationFailed == "kb hits failed validation"
runReadFailed == "run read failed"
runUpdateFailed == "run update failed (db user ops@sentinel.com)"

\* redactString, tabulated for the strings of the model that hold PII
redactString(input) ==
  CASE input = extractOf(kb_freeze.content_text)
         -> "Unfreeze needs an OTP. Reach us at ****REDACTED**** for a dispute...."
    [] input = runUpdateFailed -> "run update failed (db user ****REDACTED****)"
    [] OTHER -> input

redactStrings(ss) == [i \in 1..Len(ss) |-> redactString(ss[i])]

\* redactObject on the shapes of the model; falsy values are returned as is
redactHit(h) ==
  [docId |-> redactString(h.docId), title |-> redactString(h.title),
   anchor |-> redactString(h.anchor), extract |-> redactString(h.extract)]
redactHits(hs) == [i \in 1..Len(hs) |-> redactHit(hs[i])]
redactTxn(t) ==
  [t EXCEPT !.id = redactString(t.id), !.merchant = redactString(t.merchant),
            !.mcc = redactString(t.mcc), !.device_id = redactString(t.device_id),
            !.country = redactString(t.country)]
redactTxns(ts) == [i \in 1..Len(ts) |-> redactTxn(ts[i])]
redactReport(r) ==
  [r EXCEPT !.score = redactString(r.score), !.reasons = redactStrings(r.reasons),
            !.recommendedAction = redactString(r.recommendedAction),
            !.reasonCode = redactString(r.reasonCode)]

\* The detail object of a trace entry or tool_update, as one record shape:
\* output (absent, a report or a hit list), the flag, the error text and the
\* ids of the loadContext echo
Detail(outputType, output, fallback_triggered, error, context) ==
  [outputType |-> outputType, output |-> output,
   fallback_triggered |-> fallback_triggered, error |-> error, context |-> context]

redactDetail(d) ==
  [d EXCEPT !.output = IF ~IsSome(d.output) THEN None
                       ELSE IF d.outputType = "report" THEN Some(redactReport(d.output[1]))
                       ELSE Some(redactHits(d.output[1])),
            !.error = redactString(d.error),
            !.context = redactStrings(d.context)]

redactDecision(dec) ==
  [dec EXCEPT !.action = redactString(dec.action), !.reason = redactString(dec.reason),
              !.reasonCode = redactString(dec.reasonCode),
              !.citations = redactHits(dec.citations),
              !.relatedTransactions =
                 IF IsSome(dec.relatedTransactions)
                 THEN Some(redactTxns(dec.relatedTransactions[1])) ELSE None]

(***************************************************************************)
(* RedactorAgent character by character: a text is a sequence of           *)
(* characters, and the two patterns are matched as String.replace with a   *)
(* global pattern matches them (leftmost match, greedy quantifiers, the    *)
(* scan resumed after each match).                                         *)
(***************************************************************************)
PanMinDigits == 13
PanMaxDigits == 19
TldMinChars == 2

digitChars == {"0", "1", "2", "3", "4", "5", "6", "7", "8", "9"}
letterChars ==
  {"a", "b", "c", "d", "e", "f", "g", "h", "i", "j", "k", "l", "m", "n", "o", "p", "q",
   "r", "s", "t", "u", "v", "w", "x", "y", "z", "A", "B", "C", "D", "E", "F", "G", "H",
   "I", "J", "K", "L", "M", "N", "O", "P", "Q", "R", "S", "T", "U", "V", "W", "X", "Y",
   "Z"}
\* \w
wordChars == letterChars \cup digitChars \cup {"_"}
\* [A-Za-z0-9._%+-]
localChars == letterChars \cup digitChars \cup {".", "_", "%", "+", "-"}
\* [A-Za-z0-9.-]
domainChars == letterChars \cup digitChars \cup {".", "-"}
\* [A-Z|a-z]
tldChars == letterChars \cup {"|"}

\* private static redacted = '****REDACTED****'
redactedToken ==
  <<"*", "*", "*", "*", "R", "E", "D", "A", "C", "T", "E", "D", "*", "*", "*", "*">>

allIn(t, from, to, class) == \A j \in from..to : t[j] \in class
isWordAt(t, i) == i >= 1 /\ i <= Len(t) /\ t[i] \in wordChars
\* \b between t[i] and t[i + 1]
wordBoundary(t, i) == isWordAt(t, i) # isWordAt(t, i + 1)
maxOf(S) == CHOOSE x \in S : \A y \in S : y <= x
minOf(S) == CHOOSE x \in S : \A y \in S : x <= y

\* /\b(\d{13,19})\b/ tried at position s: the last position of the match, or 0
panEnd(t, s) ==
  LET ends == {e \in (s + PanMinDigits - 1)..(s + PanMaxDigits - 1) :
                 e <= Len(t) /\ allIn(t, s, e, digitChars) /\ wordBoundary(t, e)}
  IN IF wordBoundary(t, s - 1) /\ ends # {} THEN maxOf(ends) ELSE 0

\* /\b[A-Za-z0-9._%+-]+@[A-Za-z0-9.-]+\.[A-Z|a-z]{2,}\b/ tried at position s:
\* the last position of the match, or 0. The domain is as long as a match
\* allows, and then the last part is.
emailEnd(t, s) ==
  LET ats == IF wordBoundary(t, s - 1)
             THEN {a \in (s + 1)..Len(t) : t[a] = "@" /\ allIn(t, s, a - 1, localChars)}
             ELSE {}
      splits == UNION {{de \in ((a + 1)..Len(t)) \X ((a + 2 + TldMinChars)..Len(t)) :
                          /\ allIn(t, a + 1, de[1], domainChars)
                          /\ de[1] + 1 <= Len(t) /\ t[de[1] + 1] = "."
                          /\ de[2] >= de[1] + 1 + TldMinChars
                          /\ allIn(t, de[1] + 2, de[2], tldChars)
                          /\ wordBoundary(t, de[2])} : a \in ats}
  IN IF splits # {}
     THEN LET d == maxOf({de[1] : de \in splits})
          IN maxOf({de[2] : de \in {x \in splits : x[1] = d}})
     ELSE 0

\* input.replace(panRegex, redacted), from position pos on
RECURSIVE replacePan(_, _)
replacePan(t, pos) ==
  LET starts == {s \in pos..Len(t) : panEnd(t, s) # 0}
  IN IF starts = {} THEN SubSeq(t, pos, Len(t))
     ELSE LET s == minOf(starts)
          IN SubSeq(t, pos, s - 1) \o redactedToken \o replacePan(t, panEnd(t, s) + 1)

\* only the first address is replaced
replaceEmail_firstOnly(t, pos) ==
  LET starts == {s \in pos..Len(t) : emailEnd(t, s) # 0}
  IN IF starts = {} THEN SubSeq(t, pos, Len(t))
     ELSE LET s == minOf(starts)
          IN SubSeq(t, pos, s - 1) \o redactedToken \o SubSeq(t, emailEnd(t, s) + 1, Len(t))
\* .replace(emailRegex, redacted), from position pos on
RECURSIVE replaceEmail(_, _)
replaceEmail(t, pos) ==
  LET starts == {s \in pos..Len(t) : emailEnd(t, s) # 0}
  IN IF starts = {} THEN SubSeq(t, pos, Len(t))
     ELSE LET s == minOf(starts)
          IN SubSeq(t, pos, s - 1) \o redactedToken \o replaceEmail(t, emailEnd(t, s) + 1)

\* redactString on a sequence of characters
redactChars(t) == IF t = <<>> THEN t ELSE replaceEmail(replacePan(t, 1), 1)

\* JavaScript values: null, numbers, strings, arrays and plain objects. Every
\* value has the same fields; key is the property name when the value is a
\* property of an object
Null == [t |-> "null", key |-> "", text |-> <<>>, num |-> 0, items |-> <<>>]
Num(n) == [Null EXCEPT !.t = "number", !.num = n]
Str(chars) == [Null EXCEPT !.t = "string", !.text = chars]
Arr(items) == [Null EXCEPT !.t = "array", !.items = items]
Obj(properties) == [Null EXCEPT !.t = "object", !.items = properties]
Prop(key, value) == [value EXCEPT !.key = key]

\* !obj
falsy(v) ==
  \/ v.t = "null"
  \/ v.t = "number" /\ v.num = 0
  \/ v.t = "string" /\ v.text = <<>>

\* RedactorAgent.redactObject: a new array or object is built, the argument
\* is read only
RECURSIVE redactObject(_)
redactObject(obj) ==
  IF falsy(obj) THEN obj
  ELSE IF obj.t = "array"
  THEN [obj EXCEPT !.items = [i \in 1..Len(obj.items) |-> redactObject(obj.items[i])]]
  ELSE IF obj.t = "object"
  THEN [obj EXCEPT !.items =
          [i \in 1..Len(obj.items) |->
             LET value == obj.items[i]
             IN IF value.t = "string" THEN [value EXCEPT !.text = redactChars(value.text)]
                ELSE IF value.t \in {"array", "object"}
                THEN redactObject(value)
                ELSE value]]
  ELSE IF obj.t = "string" THEN [obj EXCEPT !.text = redactChars(obj.text)]
  ELSE obj

(***************************************************************************)
(* Zod schemas of the orchestrator.                                        *)
(***************************************************************************)
\* FraudReportSchema.safeParse(report).success
FraudReportSchema_ok(r) ==
  /\ r.score \in {"LOW", "MEDIUM", "HIGH"}
  /\ r.recommendedAction \in {"FREEZE_CARD", "OPEN_DISPUTE", "NONE", "undefined"}

\* z.array(KBHitSchema).parse(kbHits) does not throw
KBHitSchema_ok(hits) ==
  \A i \in 1..Len(hits) :
     /\ hits[i].docId # "undefined" /\ hits[i].title # "undefined"
     /\ hits[i].anchor # "undefined" /\ hits[i].extract # "undefined"

(***************************************************************************)
(* Pure parts of TriageOrchestrator.run                                    *)
(***************************************************************************)
\* this.state.alert.suspect_txn || this.state.recentTx[0]
selectTxn(sc) ==
  IF IsSome(sc.suspect_txn) THEN sc.suspect_txn
  ELSE IF Len(sc.recentTx) > 0 THEN Some(sc.recentTx[1]) ELSE None

\* this.state.alert.suspect_txn?.merchant, present when truthy
alertMerchant(sc) ==
  IF IsSome(sc.suspect_txn) /\ sc.suspect_txn[1].merchant # ""
  THEN Some(sc.suspect_txn[1].merchant) ELSE None

\* recentTx.filter(same merchant, amount within $1, other id) for an optional subject
nearDuplicates(recentTx, subject) ==
  IF ~IsSome(subject) THEN <<>>
  ELSE FilterSeq(recentTx,
         {t \in Range(recentTx) :
            /\ t.merchant = subject[1].merchant
            /\ Abs(t.amount_cents - subject[1].amount_cents) < DuplicateToleranceCents
            /\ t.id # subject[1].id})

\* the duplicate filter without the comparison of ids
lookupTriggered_noIdCheck(k, sc, fraudReport) ==
  CASE k = 1 -> IsSome(alertMerchant(sc))
    [] k = 2 -> /\ IsSome(selectTxn(sc))
                /\ \E i \in 1..Len(sc.recentTx) :
                      /\ sc.recentTx[i].merchant = selectTxn(sc)[1].merchant
                      /\ Abs(sc.recentTx[i].amount_cents - selectTxn(sc)[1].amount_cents)
                           < DuplicateToleranceCents
    [] k = 3 -> IsSome(fraudReport) /\ fraudReport[1].recommendedAction = "OPEN_DISPUTE"
    [] OTHER -> FALSE
\* Whether lookup k of stage 3 runs: 1 merchant, 2 pre-auth, 3 dispute
lookupTriggered(k, sc, fraudReport) ==
  CASE k = 1 -> IsSome(alertMerchant(sc))
    [] k = 2 -> Len(nearDuplicates(sc.recentTx, selectTxn(sc))) > 0
    [] k = 3 -> IsSome(fraudReport) /\ fraudReport[1].recommendedAction = "OPEN_DISPUTE"
    [] OTHER -> FALSE

lookupQuery(k, sc) ==
  CASE k = 1 -> alertMerchant(sc)[1]
    [] k = 2 -> "pre-auth"
    [] OTHER -> "dispute"

\* The first lookup at or after k that runs; 4 when none is left
nextLookup(k, sc, fraudReport) ==
  IF \E j \in k..3 : lookupTriggered(j, sc, fraudReport)
  THEN CHOOSE j \in k..3 : /\ lookupTriggered(j, sc, fraudReport)
                           /\ \A i \in k..(j-1) : ~lookupTriggered(i, sc, fraudReport)
  ELSE 4

\* the decision object built without its reasonCode
Decision_withoutReasonCode(action, reason, reasonCode, citations, related) ==
  [action |-> action, reason |-> reason, reasonCode |-> "undefined",
   citations |-> citations, relatedTransactions |-> related]
Decision(action, reason, reasonCode, citations, related) ==
  [action |-> action, reason |-> reason, reasonCode |-> reasonCode,
   citations |-> citations, relatedTransactions |-> related]

\* Step 4 with the override branch keeping the report's action
finalDecision_overrideKeepsAction(sc, fraudReport, kbHits) ==
  LET txnToAnalyze == selectTxn(sc)
      action0 == IF IsSome(fraudReport) /\ fraudReport[1].recommendedAction # "undefined"
                 THEN fraudReport[1].recommendedAction ELSE "NONE"
      reason0 == IF IsSome(fraudReport) /\ Len(fraudReport[1].reasons) > 0
                    /\ fraudReport[1].reasons[1] # ""
                 THEN fraudReport[1].reasons[1] ELSE "No issues found."
      reasonCode == IF IsSome(fraudReport) THEN fraudReport[1].reasonCode ELSE "undefined"
      preAuth == FilterSeq(kbHits,
                   {h \in Range(kbHits) : h.anchor = "disputes:pre-auth-vs-capture"})
      disputeHits == FilterSeq(kbHits,
                       {h \in Range(kbHits) :
                          startsWithDisputes(h.anchor) \/ containsInsensitive(h.title, "dispute")})
      relatedDuplicates == nearDuplicates(sc.recentTx, txnToAnalyze)
  IN IF Len(relatedDuplicates) > 0 /\ Len(preAuth) > 0
     THEN Decision(action0,
            "Two transactions detected: pre-authorization hold and final capture at "
              \o txnToAnalyze[1].merchant \o ". This is normal for "
              \o (IF txnToAnalyze[1].mcc = "4121" THEN "ride-sharing" ELSE "this type of")
              \o " merchant. Not fraudulent.",
            reasonCode, <<preAuth[1]>>,
            Some(<<txnToAnalyze[1]>> \o relatedDuplicates))
     ELSE Decision(action0,
            IF action0 = "FREEZE_CARD"
            THEN reason0 \o " (Policy: OTP may be required for unfreeze)" ELSE reason0,
            reasonCode,
            IF action0 = "OPEN_DISPUTE" /\ Len(disputeHits) > 0 THEN disputeHits ELSE <<>>,
            None)

\* Step 4 (lines 188-252): the final decision from the report, the validated
\* hits and the window
finalDecision(sc, fraudReport, kbHits) ==
  LET txnToAnalyze == selectTxn(sc)
      action0 == IF IsSome(fraudReport) /\ fraudReport[1].recommendedAction # "undefined"
                 THEN fraudReport[1].recommendedAction ELSE "NONE"
      reason0 == IF IsSome(fraudReport) /\ Len(fraudReport[1].reasons) > 0
                    /\ fraudReport[1].reasons[1] # ""
                 THEN fraudReport[1].reasons[1] ELSE "No issues found."
      reasonCode == IF IsSome(fraudReport) THEN fraudReport[1].reasonCode ELSE "undefined"
      preAuth == FilterSeq(kbHits,
                   {h \in Range(kbHits) : h.anchor = "disputes:pre-auth-vs-capture"})
      disputeHits == FilterSeq(kbHits,
                       {h \in Range(kbHits) :
                          startsWithDisputes(h.anchor) \/ containsInsensitive(h.title, "dispute")})
      relatedDuplicates == nearDuplicates(sc.recentTx, txnToAnalyze)
  IN IF Len(relatedDuplicates) > 0 /\ Len(preAuth) > 0
     THEN Decision("NONE",
            "Two transactions detected: pre-authorization hold and final capture at "
              \o txnToAnalyze[1].merchant \o ". This is normal for "
              \o (IF txnToAnalyze[1].mcc = "4121" THEN "ride-sharing" ELSE "this type of")
              \o " merchant. Not fraudulent.",
            reasonCode, <<preAuth[1]>>,
            Some(<<txnToAnalyze[1]>> \o relatedDuplicates))
     ELSE Decision(action0,
            IF action0 = "FREEZE_CARD"
            THEN reason0 \o " (Policy: OTP may be required for unfreeze)" ELSE reason0,
            reasonCode,
            IF action0 = "OPEN_DISPUTE" /\ Len(disputeHits) > 0 THEN disputeHits ELSE <<>>,
            None)

(***************************************************************************)
(* The guardrail: withTimeout(fn, ms, fallback)                            *)
(***************************************************************************)
\* A stage function as a promise: how it settles and how long after the call
Behaviour(kind, at, value) == [kind |-> kind, at |-> at, value |-> value]

\* A value with its JavaScript identity: the fallback object or a fresh result
Ref(ref, value) == [ref |-> ref, value |-> value]

\* Both timers are armed in the same tick, the guard's first: fn's .then runs
\* before the guard's timer callback iff fn settles strictly earlier than ms
fnBeforeTimer(b, ms) == b.kind # "never" /\ b.at < ms

\* resolve as a plain callback: every call overwrites the value
resolveWith_overwrite(g, v) ==
  [g EXCEPT !.settled = Some(v), !.resolveCalls = g.resolveCalls + 1]
\* resolve(v) of the promise withTimeout returns: the first call settles it
resolveWith(g, v) ==
  [g EXCEPT !.settled = IF IsSome(g.settled) THEN g.settled ELSE Some(v),
            !.resolveCalls = g.resolveCalls + 1]

\* fn().then(result => { clearTimeout(timer); resolve(result) })
\*     .catch(err  => { clearTimeout(timer); resolve(fallback) })
onFnSettled(g) ==
  LET cleared == [g EXCEPT !.timer = IF g.timer = "armed" THEN "cleared" ELSE g.timer,
                           !.fn = IF g.b.kind = "resolve" THEN "resolved" ELSE "rejected"]
  IN IF g.b.kind = "resolve"
     THEN resolveWith(cleared, Ref("result", g.b.value))
     ELSE resolveWith(cleared, Ref("fallback", g.fallback))

\* the timer callback only logs
onTimer_warnsOnly(g) == [g EXCEPT !.timer = "fired"]
\* the timer resolves with a copy of the fallback object
onTimer_copiesFallback(g) ==
  resolveWith([g EXCEPT !.timer = "fired"], Ref("result", g.fallback))
\* setTimeout(() => resolve(fallback), ms)
onTimer(g) == resolveWith([g EXCEPT !.timer = "fired"], Ref("fallback", g.fallback))

\* new Promise(resolve => { timer = setTimeout(..., ms); fn()... })
newGuard(stepName, b, fallback) ==
  [step |-> stepName, b |-> b, fallback |-> fallback, timer |-> "armed",
   fn |-> "pending", settled |-> None, resolveCalls |-> 0]

(***************************************************************************)
(* The stage functions handed to runAgent.                                 *)
(***************************************************************************)
\* A report the schema rejects, and a hit list it rejects
malformedReport == Report("CRITICAL", <<"unscored">>, "undefined", "undefined", None)
malformedHits == <<[docId |-> "kb_x", title |-> "untitled", anchor |-> "undefined",
                    extract |-> "..."]>>

\* What a stage function can do besides its normal result: reject, reject or
\* resolve after the budget, never settle, resolve with a malformed value
stageFaults(value, malformed) ==
  { Behaviour("reject", 0, value), Behaviour("reject", TimeoutMs, value),
    Behaviour("never", TimeoutMs, value), Behaviour("resolve", TimeoutMs, value),
    Behaviour("resolve", 0, malformed) }

\* () => FraudAgent.analyze(recentTx, txnToAnalyze, customer, chargebackHistory):
\* the simulated-timeout branch runs no rule; the rules run on database rows
\* and may throw
riskBehaviours(sc, txn, history) ==
  LET normal == analyze(sc.recentTx, txn, history, sc.clock)
  IN IF txn.simulate_risk_timeout THEN {normal}
     ELSE {normal} \cup stageFaults(normal.value, malformedReport)

\* () => KBAgent.search(q): a database read
kbBehaviours(store, q) ==
  LET hits == KBAgent_search(store, q)
  IN {Behaviour("resolve", 0, hits)} \cup stageFaults(hits, malformedHits)

riskFallback == Report("MEDIUM", <<"risk_unavailable (fallback)">>, "NONE", "undefined", None)
validationFallback ==
  Report("MEDIUM", <<"risk_validation_failed (fallback)">>, "undefined", "undefined", None)
\* the guarded stage's fallback report reused for the missing transaction
noTxnReport_riskFallback ==
  Report("MEDIUM", <<"risk_unavailable (fallback)">>, "NONE", "undefined", None)
noTxnReport == Report("LOW", <<"No transaction data available">>, "NONE", "undefined", None)

(***************************************************************************)
(* State                                                                   *)
(***************************************************************************)
VARIABLES
  input,          \* the initial state handed to the constructor, and the clock
  kbStore,        \* the KbDoc table
  redisUp,        \* whether redis.publish succeeds during this run
  pc,             \* position of run()
  step,           \* this.step
  fallbackUsed,   \* this.fallbackUsed
  state,          \* this.state: fraudReport, kbHits, finalDecision
  chargebackHistory, \* local of run()
  kbHits,         \* local of run()
  kbStage,        \* the next lookup of stage 3 to consider (1..4)
  caught,         \* the error the catch block of run() holds
  guards,         \* the withTimeout promises created so far, last = current
  trace,          \* AgentTrace rows of the run
  runRow,         \* the TriageRun row
  events,         \* sseService.dispatch calls, in order
  channel,        \* messages published on triage:<runId>
  metrics,        \* tool call counters
  elapsed,        \* milliseconds spent in guarded calls
  outcome,        \* the promise run() returned: pending, resolved, rejected
  thrown,         \* the error run() rejected with
  invoked,        \* history: stage invocations, in order
  finalizeLog,    \* history: finalizeRun invocations
  throwLog,       \* history: the errors thrown by awaited steps, in order
  lookups,        \* history: the stage 3 lookups started, in order
  payload,        \* the value handed to redactObject
  redacted,       \* the values redactObject returned, in call order
  post,           \* position of the POST /triage handler
  pendingTriageStates,\* the module-level map, as the entry of this run
  subscribed,     \* whether redisSubscriber is subscribed to the channel of the run
  orchestrators,  \* how many TriageOrchestrator were constructed and run
  conns,          \* the stream connections of the run
  txnRows,        \* the Transaction table
  limit,          \* the page size the client asks for
  cursor,         \* the cursor of the client's next request
  collected,      \* the items of the pages the client has read, in order
  pagePc,         \* the client's position: paging, done
  cardStatus,     \* status of the Card row
  kycLevel,       \* kyc_level of the card's customer
  caseRows,       \* Case rows, in creation order
  auditRows,      \* CaseEvent rows written by AuditService.logEvent
  idempotency,    \* redis keys idempotency:action:<key>: the cached responses
  otpStore,       \* redis key otp:<cardId>
  requests,       \* the POST /action/freeze-card requests and their positions
  other,          \* a second orchestrator, while it is not the one taking steps
  activeRun       \* the run id of the orchestrator taking steps

vars == <<input, kbStore, redisUp, pc, step, fallbackUsed, state, chargebackHistory,
          kbHits, kbStage, caught, guards, trace, runRow, events, channel, metrics,
          elapsed, outcome, thrown, invoked, finalizeLog, throwLog, lookups,
          payload, redacted,
          post, pendingTriageStates, subscribed, orchestrators, conns,
          txnRows, limit, cursor, collected, pagePc,
          cardStatus, kycLevel, caseRows, auditRows, idempotency, otpStore, requests,
          other, activeRun>>
streamVars == <<post, pendingTriageStates, subscribed, orchestrators>>
redactVars == <<payload, redacted>>
pageVars == <<txnRows, limit, cursor, collected, pagePc>>
actionVars == <<cardStatus, kycLevel, caseRows, auditRows, idempotency, otpStore, requests>>
apiVars == <<pageVars, actionVars>>
twoVars == <<other, activeRun>>

\* this.runId of the orchestrator taking steps
runId == activeRun

\* no request of GET /customer/:id/transactions
pageIdle ==
  /\ txnRows = {} /\ limit = 0 /\ cursor = None /\ collected = <<>> /\ pagePc = "none"
\* no action request
actionIdle ==
  /\ cardStatus = "ACTIVE" /\ kycLevel = "LVL_2" /\ caseRows = <<>> /\ auditRows = <<>>
  /\ idempotency = <<>> /\ otpStore = None /\ requests = <<>>
\* one orchestrator only
oneRun == other = None /\ activeRun = "run_1"

\* The stream connections of the run: the one a client opens first and the
\* one it opens next (a reconnection, or the second mount of the page)
Connections == {"first", "second"}

\* A connection: the position of its GET /triage/:runId/stream handler,
\* whether the client has closed it, whether onMessage is registered on
\* redisSubscriber, whether the 'close' handler is registered, the state of
\* the 5 s timer of its handler, how many messages had been published when
\* its subscription was confirmed, the channel messages written to res (by
\* their position in the channel), the run whose channel the handler names
\* (req.params.runId) and the run ids of the messages written to res
connFor(run) ==
  [at |-> "new", closed |-> FALSE, listener |-> FALSE, closeHandler |-> FALSE,
   cleanup |-> "none", subscribedAt |-> 0, received |-> <<>>, run |-> run, wrote |-> <<>>]
newConn == connFor("run_1")

\* redis delivers a published message to redisSubscriber when it is
\* subscribed to the channel; every registered onMessage writes it to its
\* res, which takes it unless it was ended or the client has gone
\* every listener writes whatever redisSubscriber emits
delivered_anyChannel(cs, sub, ch, chAfter) ==
  IF sub /\ Len(chAfter) > Len(ch)
  THEN [c \in DOMAIN cs |->
          IF cs[c].listener /\ ~cs[c].closed /\ cs[c].at # "failed"
          THEN [cs[c] EXCEPT !.received = Append(@, Len(chAfter)),
                             !.wrote = Append(@, chAfter[Len(chAfter)].run_id)]
          ELSE cs[c]]
  ELSE cs
\* redisSubscriber emits 'message' with the channel name to every registered
\* onMessage; each writes the message only if msgChannel === channel
delivered(cs, sub, ch, chAfter) ==
  IF sub /\ Len(chAfter) > Len(ch)
  THEN [c \in DOMAIN cs |->
          IF /\ cs[c].listener /\ ~cs[c].closed /\ cs[c].at # "failed"
             /\ cs[c].run = chAfter[Len(chAfter)].run_id
          THEN [cs[c] EXCEPT !.received = Append(@, Len(chAfter)),
                             !.wrote = Append(@, chAfter[Len(chAfter)].run_id)]
          ELSE cs[c]]
  ELSE cs

Init ==
  /\ oneRun /\ pageIdle /\ actionIdle
  /\ input \in Scenarios
  /\ kbStore \in KbStores
  /\ redisUp \in BOOLEAN
  /\ pc = "loadContext"
  /\ step = 0
  /\ fallbackUsed = FALSE
  /\ state = [fraudReport |-> None, kbHits |-> None, finalDecision |-> None]
  /\ chargebackHistory = <<>>
  /\ kbHits = <<>>
  /\ kbStage = 1
  /\ caught = None
  /\ guards = <<>>
  /\ trace = <<>>
  /\ runRow = [id |-> runId, ended_at |-> None, latency_ms |-> None, risk |-> "MEDIUM",
               reasons |-> <<"RUNNING">>, fallback_used |-> FALSE, updates |-> 0]
  /\ events = <<>>
  /\ channel = <<>>
  /\ metrics = [toolCalls |-> <<>>, agentFallbackTotal |-> 0]
  /\ elapsed = 0
  /\ outcome = "pending"
  /\ thrown = None
  /\ invoked = <<>>
  /\ finalizeLog = <<>>
  /\ throwLog = <<>>
  /\ lookups = <<>>
  /\ post = "accepted"
  /\ pendingTriageStates = <<>>
  /\ subscribed = FALSE
  /\ orchestrators = 1
  /\ conns = [c \in Connections |-> newConn]
  /\ payload = Null
  /\ redacted = <<>>

(***************************************************************************)
(* traceStep and sseService.dispatch                                       *)
(***************************************************************************)
\* the counter is left as it is
nextStep_noIncrement(s) == IF s = 0 THEN 1 ELSE s
\* this.step++
nextStep(s) == s + 1

\* The row prisma.agentTrace.create writes
traceRow(seq, stepName, detail, ok, duration_ms) ==
  [run_id |-> runId, seq |-> seq, step |-> stepName, ok |-> ok,
   duration_ms |-> duration_ms, detail_json |-> redactDetail(detail)]

\* The dispatch call: the event with its redacted data
dispatched(event, data) == [run_id |-> runId, event |-> event, data |-> data]

\* redis.publish inside try/catch: a failed publish is logged and dropped
published(ch, up, msg) == IF up THEN Append(ch, msg) ELSE ch

\* data of tool_update after dispatch's redactObject
toolUpdateData(stepName, ok, duration_ms, detail) ==
  [step |-> redactString(stepName), ok |-> ok, duration_ms |-> duration_ms,
   detail |-> IF ok THEN Some(redactDetail(redactDetail(detail))) ELSE None]

\* the payload of decision_finalized handed to the transport as it was built
finalizedData_unredacted(error, st) ==
  IF IsSome(error)
  THEN [shape |-> "error", error |-> "Triage run failed", reason |-> error[1],
        decision |-> None, risk |-> "undefined"]
  ELSE [shape |-> "decision", error |-> "undefined", reason |-> "undefined",
        decision |-> st.finalDecision,
        risk |-> IF IsSome(st.fraudReport) THEN st.fraudReport[1].score ELSE "undefined"]
\* data of decision_finalized after dispatch's redactObject
finalizedData(error, st) ==
  IF IsSome(error)
  THEN [shape |-> "error", error |-> "Triage run failed", reason |-> redactString(error[1]),
        decision |-> None, risk |-> "undefined"]
  ELSE [shape |-> "decision", error |-> "undefined", reason |-> "undefined",
        decision |-> IF IsSome(st.finalDecision)
                     THEN Some(redactDecision(st.finalDecision[1])) ELSE None,
        risk |-> IF IsSome(st.fraudReport) THEN redactString(st.fraudReport[1].score)
                 ELSE "undefined"]

(***************************************************************************)
(* TriageOrchestrator.run, one action per awaited step                     *)
(***************************************************************************)

\* Step 1: traceStep('loadContext', {customerId, alertId, txnId}, true)
LoadContext ==
  /\ pc = "loadContext"
  /\ step' = nextStep(step)
  /\ invoked' = Append(invoked, "loadContext")
  /\ lookups' = lookups
  /\ \/ /\ trace' = Append(trace,
                      traceRow(step', "loadContext",
                               Detail("none", None, FALSE, "undefined",
                                      <<"cust_001", "alert_001",
                                        IF IsSome(input.suspect_txn)
                                        THEN input.suspect_txn[1].id ELSE "null">>),
                               TRUE, 0))
        /\ pc' = "riskSignals"
        /\ caught' = caught
        /\ throwLog' = throwLog
     \/ /\ trace' = trace
        /\ pc' = "catch"
        /\ caught' = Some(traceWriteFailed)
        /\ throwLog' = Append(throwLog, traceWriteFailed)
  /\ UNCHANGED <<redactVars, apiVars, twoVars, streamVars, conns, input, kbStore, redisUp, fallbackUsed, state, chargebackHistory, kbHits,
                 kbStage, guards, runRow, events, channel, metrics, elapsed, outcome,
                 thrown, finalizeLog>>

\* Step 2 without a transaction (lines 85-95)
RiskNoTxn ==
  /\ pc = "riskSignals"
  /\ ~IsSome(selectTxn(input))
  /\ state' = [state EXCEPT !.fraudReport = Some(noTxnReport)]
  /\ fallbackUsed' = TRUE
  /\ step' = nextStep(step)
  /\ invoked' = Append(invoked, "riskSignals")
  /\ lookups' = lookups
  /\ \/ /\ trace' = Append(trace,
                      traceRow(step', "riskSignals",
                               Detail("none", None, FALSE, "No transaction data", <<>>),
                               FALSE, 0))
        /\ pc' = "kbLookup"
        /\ caught' = caught
        /\ throwLog' = throwLog
     \/ /\ trace' = trace
        /\ pc' = "catch"
        /\ caught' = Some(traceWriteFailed)
        /\ throwLog' = Append(throwLog, traceWriteFailed)
  /\ UNCHANGED <<redactVars, apiVars, twoVars, streamVars, conns, input, kbStore, redisUp, chargebackHistory, kbHits, kbStage, guards,
                 runRow, events, channel, metrics, elapsed, outcome, thrown, finalizeLog>>

\* Step 2 with a transaction: prisma.case.findMany (lines 99-103)
RiskReadHistory ==
  /\ pc = "riskSignals"
  /\ IsSome(selectTxn(input))
  /\ \/ /\ chargebackHistory' = input.cases
        /\ pc' = "riskAgent"
        /\ caught' = caught
        /\ throwLog' = throwLog
     \/ /\ chargebackHistory' = chargebackHistory
        /\ pc' = "catch"
        /\ caught' = Some(caseReadFailed)
        /\ throwLog' = Append(throwLog, caseReadFailed)
  /\ UNCHANGED <<redactVars, apiVars, twoVars, streamVars, conns, input, kbStore, redisUp, step, fallbackUsed, state, kbHits, kbStage,
                 guards, trace, runRow, events, channel, metrics, elapsed, outcome,
                 thrown, invoked, lookups, finalizeLog>>

\* runAgent('riskSignals', () => FraudAgent.analyze(...), fallback) up to the
\* await of withTimeout
RiskAgentCall ==
  /\ pc = "riskAgent"
  /\ \E b \in riskBehaviours(input, selectTxn(input)[1], chargebackHistory) :
       guards' = Append(guards, newGuard("riskSignals", b, riskFallback))
  /\ invoked' = Append(invoked, "riskSignals")
  /\ lookups' = lookups
  /\ pc' = "awaitAgent"
  /\ UNCHANGED <<redactVars, apiVars, twoVars, streamVars, conns, input, kbStore, redisUp, step, fallbackUsed, state, chargebackHistory,
                 kbHits, kbStage, caught, trace, runRow, events, channel, metrics,
                 elapsed, outcome, thrown, finalizeLog, throwLog>>

\* The lookups started without awaiting the previous runAgent
KbLookupCall_unawaited ==
  /\ pc \in {"kbLookup", "awaitAgent"}
  /\ pc = "awaitAgent" => guards[Len(guards)].step = "kbLookup"
  /\ LET from == IF pc = "awaitAgent" THEN kbStage + 1 ELSE kbStage
         k == nextLookup(from, input, state.fraudReport)
     IN /\ k <= 3
        /\ \E b \in kbBehaviours(kbStore, lookupQuery(k, input)) :
             guards' = Append(guards, newGuard("kbLookup", b, <<>>))
        /\ kbStage' = k
  /\ invoked' = Append(invoked, "kbLookup")
  /\ lookups' = Append(lookups, [k |-> kbStage', q |-> lookupQuery(kbStage', input)])
  /\ pc' = "awaitAgent"
  /\ UNCHANGED <<redactVars, apiVars, twoVars, streamVars, conns, input, kbStore, redisUp, step, fallbackUsed, state, chargebackHistory,
                 kbHits, caught, trace, runRow, events, channel, metrics, elapsed,
                 outcome, thrown, finalizeLog, throwLog>>

\* runAgent('kbLookup', () => KBAgent.search(q), []) for the next lookup that
\* runs, up to the await of withTimeout
KbLookupCall ==
  /\ pc = "kbLookup"
  /\ nextLookup(kbStage, input, state.fraudReport) <= 3
  /\ LET k == nextLookup(kbStage, input, state.fraudReport)
     IN /\ \E b \in kbBehaviours(kbStore, lookupQuery(k, input)) :
             guards' = Append(guards, newGuard("kbLookup", b, <<>>))
        /\ kbStage' = k
  /\ invoked' = Append(invoked, "kbLookup")
  /\ lookups' = Append(lookups, [k |-> kbStage', q |-> lookupQuery(kbStage', input)])
  /\ pc' = "awaitAgent"
  /\ UNCHANGED <<redactVars, apiVars, twoVars, streamVars, conns, input, kbStore, redisUp, step, fallbackUsed, state, chargebackHistory,
                 kbHits, caught, trace, runRow, events, channel, metrics, elapsed,
                 outcome, thrown, finalizeLog, throwLog>>

\* The stage function settles before the guard's timer
FnSettles ==
  /\ pc = "awaitAgent"
  /\ LET g == guards[Len(guards)]
     IN /\ g.fn = "pending" /\ g.timer = "armed"
        /\ fnBeforeTimer(g.b, TimeoutMs)
        /\ guards' = [guards EXCEPT ![Len(guards)] = onFnSettled(g)]
  /\ UNCHANGED <<redactVars, apiVars, twoVars, streamVars, conns, input, kbStore, redisUp, pc, step, fallbackUsed, state,
                 chargebackHistory, kbHits, kbStage, caught, trace, runRow, events,
                 channel, metrics, elapsed, outcome, thrown, invoked, lookups, finalizeLog, throwLog>>

\* The guard's timer fires first
TimerFires ==
  /\ pc = "awaitAgent"
  /\ LET g == guards[Len(guards)]
     IN /\ g.fn = "pending" /\ g.timer = "armed"
        /\ ~fnBeforeTimer(g.b, TimeoutMs)
        /\ guards' = [guards EXCEPT ![Len(guards)] = onTimer(g)]
  /\ UNCHANGED <<redactVars, apiVars, twoVars, streamVars, conns, input, kbStore, redisUp, pc, step, fallbackUsed, state,
                 chargebackHistory, kbHits, kbStage, caught, trace, runRow, events,
                 channel, metrics, elapsed, outcome, thrown, invoked, lookups, finalizeLog, throwLog>>

\* the late settlement goes through runAgent's bookkeeping once more
FnSettlesLate_tracesAgain ==
  /\ \E i \in 1..Len(guards) :
       /\ guards[i].timer = "fired" /\ guards[i].fn = "pending"
       /\ guards[i].b.kind # "never"
       /\ guards' = [guards EXCEPT ![i] = onFnSettled(guards[i])]
       /\ step' = nextStep(step)
       /\ trace' = Append(trace,
                     traceRow(step', guards[i].step,
                              Detail("none", None, FALSE, "undefined", <<>>),
                              guards[i].b.kind = "resolve", guards[i].b.at))
  /\ UNCHANGED <<redactVars, apiVars, twoVars, streamVars, conns, input, kbStore, redisUp, pc, fallbackUsed, state,
                 chargebackHistory, kbHits, kbStage, caught, runRow, events,
                 channel, metrics, elapsed, outcome, thrown, invoked, lookups, finalizeLog, throwLog>>

\* A stage function settles after its guard's timer fired, at any later time
FnSettlesLate ==
  /\ \E i \in 1..Len(guards) :
       /\ guards[i].timer = "fired" /\ guards[i].fn = "pending"
       /\ guards[i].b.kind # "never"
       /\ guards' = [guards EXCEPT ![i] = onFnSettled(guards[i])]
  /\ UNCHANGED <<redactVars, apiVars, twoVars, streamVars, conns, input, kbStore, redisUp, pc, step, fallbackUsed, state,
                 chargebackHistory, kbHits, kbStage, caught, trace, runRow, events,
                 channel, metrics, elapsed, outcome, thrown, invoked, lookups, finalizeLog, throwLog>>

\* the comparison by value instead of by identity
isFallback_byValue(result) == result.ref = "fallback" \/ result.value = <<>>
\* result === fallback
isFallback(result) == result.ref = "fallback"

\* ok of runAgent: set in the try block unless the result is the fallback;
\* stays false in the catch block (withTimeout threw)
agentOk(result) == result.ref # "error" /\ ~isFallback(result)

\* What runAgent returns: withTimeout's value, or the fallback from the catch block
agentReturn(g) == IF g.settled[1].ref = "error" THEN g.fallback ELSE g.settled[1].value

\* detail of runAgent's try and catch blocks
agentDetail(stepName, result) ==
  LET type == IF stepName = "riskSignals" THEN "report" ELSE "hits"
  IN IF result.ref = "error"
     THEN Detail("none", None, TRUE, result.value, <<>>)
     ELSE IF isFallback(result)
     THEN Detail(type, Some(result.value), TRUE, "Agent timed out or failed.", <<>>)
     ELSE Detail(type, Some(result.value), FALSE, "undefined", <<>>)

\* Math.round(Number(end - start) / 1_000_000) of the guarded call
guardDuration(g) == IF g.timer = "cleared" THEN g.b.at ELSE TimeoutMs

\* the report's own fallback_used flag left unread
reportSetsFallback_ignoresFlag(report) == ~FraudReportSchema_ok(report)
\* Lines 116-132: the report kept after validation, and whether it sets the flag
\* the returned report stored without the safeParse result being consulted
keptReport_unvalidated(report) == report
keptReport(report) == IF FraudReportSchema_ok(report) THEN report ELSE validationFallback
reportSetsFallback(report) ==
  IF FraudReportSchema_ok(report) THEN report.fallback_used = Some(TRUE) ELSE TRUE

\* runAgent after withTimeout settled: the classification of the result and,
\* in the finally block, traceStep
RunAgentTrace ==
  /\ pc = "awaitAgent"
  /\ IsSome(guards[Len(guards)].settled)
  /\ LET g == guards[Len(guards)]
         result == g.settled[1]
     IN /\ fallbackUsed' = (fallbackUsed \/ ~agentOk(result))
        /\ step' = nextStep(step)
        /\ elapsed' = elapsed + guardDuration(g)
        /\ \/ /\ trace' = Append(trace,
                            traceRow(step', g.step, agentDetail(g.step, result),
                                     agentOk(result), guardDuration(g)))
              /\ pc' = "agentDispatch"
              /\ UNCHANGED <<caught, throwLog>>
           \/ /\ trace' = trace
              /\ caught' = Some(traceWriteFailed)
              /\ throwLog' = Append(throwLog, traceWriteFailed)
              /\ pc' = "catch"
  /\ UNCHANGED <<redactVars, apiVars, twoVars, streamVars, conns, input, kbStore, redisUp, state, chargebackHistory, kbHits, kbStage,
                 guards, runRow, events, channel, metrics, outcome, thrown, invoked, lookups,
                 finalizeLog>>

\* The rest of runAgent's finally block (metrics, the tool_update dispatch),
\* its return, and the caller's use of the returned value
RunAgentDispatch ==
  /\ pc = "agentDispatch"
  /\ LET g == guards[Len(guards)]
         result == g.settled[1]
         ok == agentOk(result)
     IN /\ metrics' = [toolCalls |-> Append(metrics.toolCalls, <<g.step, ok>>),
                       agentFallbackTotal |->
                         metrics.agentFallbackTotal + (IF fallbackUsed THEN 1 ELSE 0)]
        /\ events' = Append(events,
                       dispatched("tool_update",
                                  toolUpdateData(g.step, ok, guardDuration(g),
                                                 agentDetail(g.step, result))))
        /\ channel' = published(channel, redisUp, events'[Len(events')])
        /\ IF g.step = "riskSignals"
           THEN /\ state' = [state EXCEPT !.fraudReport = Some(keptReport(agentReturn(g)))]
                /\ fallbackUsed' = (fallbackUsed \/ reportSetsFallback(agentReturn(g)))
                /\ UNCHANGED <<kbHits, kbStage>>
           ELSE /\ kbHits' = kbHits \o agentReturn(g)
                /\ kbStage' = kbStage + 1
                /\ UNCHANGED <<state, fallbackUsed>>
        /\ pc' = "kbLookup"
  /\ conns' = delivered(conns, subscribed, channel, channel')
  /\ UNCHANGED <<redactVars, apiVars, twoVars, streamVars, input, kbStore, redisUp, step, chargebackHistory, caught, guards, trace,
                 runRow, elapsed, outcome, thrown, invoked, lookups, finalizeLog, throwLog>>

\* Decide with the hits checked by safeParse and a failure ignored: the
\* decision is synthesized from no hits and state.kbHits stays unset
Decide_safeParse ==
  /\ pc = "kbLookup"
  /\ nextLookup(kbStage, input, state.fraudReport) = 4
  /\ state' = IF KBHitSchema_ok(kbHits)
              THEN [state EXCEPT
                      !.kbHits = Some(kbHits),
                      !.finalDecision =
                         Some(finalDecision(input, state.fraudReport, kbHits))]
              ELSE [state EXCEPT
                      !.finalDecision =
                         Some(finalDecision(input, state.fraudReport, <<>>))]
  /\ pc' = "finalize"
  /\ UNCHANGED <<redactVars, apiVars, twoVars, streamVars, conns, input, kbStore, redisUp, step, fallbackUsed, chargebackHistory, kbHits,
                 kbStage, caught, guards, trace, runRow, events, channel, metrics,
                 elapsed, outcome, thrown, invoked, lookups, finalizeLog, throwLog>>

\* Lines 184-253: validate the hits, synthesize the decision
Decide ==
  /\ pc = "kbLookup"
  /\ nextLookup(kbStage, input, state.fraudReport) = 4
  /\ IF KBHitSchema_ok(kbHits)
     THEN /\ state' = [state EXCEPT
                         !.kbHits = Some(kbHits),
                         !.finalDecision =
                            Some(finalDecision(input, state.fraudReport, kbHits))]
          /\ pc' = "finalize"
          /\ caught' = caught
          /\ throwLog' = throwLog
     ELSE /\ state' = state
          /\ pc' = "catch"
          /\ caught' = Some(kbValidationFailed)
          /\ throwLog' = Append(throwLog, kbValidationFailed)
  /\ UNCHANGED <<redactVars, apiVars, twoVars, streamVars, conns, input, kbStore, redisUp, step, fallbackUsed, chargebackHistory, kbHits,
                 kbStage, guards, trace, runRow, events, channel, metrics, elapsed,
                 outcome, thrown, invoked, lookups, finalizeLog>>

\* The data of prisma.triageRun.update in finalizeRun
finalizedRow(row, st, flag, latency_ms) ==
  [row EXCEPT !.ended_at = Some("end"), !.latency_ms = Some(latency_ms),
              !.fallback_used = flag,
              !.risk = IF IsSome(st.fraudReport) /\ st.fraudReport[1].score # ""
                       THEN st.fraudReport[1].score ELSE "LOW",
              !.reasons = IF IsSome(st.fraudReport)
                          THEN redactStrings(st.fraudReport[1].reasons) ELSE <<>>,
              !.updates = row.updates + 1]

\* Where run() goes when finalizeRun throws: from the try block into the catch
\* block, from the catch block out of run()
afterFinalizeThrow(at) == IF at = "finalize" THEN "catch" ELSE "done"

\* FinalizeRun with the terminal event dispatched before the persistence calls
FinalizeRun_dispatchFirst ==
  /\ pc \in {"finalize", "catch"}
  /\ LET error == IF pc = "catch" THEN caught ELSE None
     IN /\ events' = Append(events,
                       dispatched("decision_finalized", finalizedData(error, state)))
        /\ channel' = published(channel, redisUp, events'[Len(events')])
        /\ \/ /\ runRow' = finalizedRow(runRow, state, fallbackUsed, elapsed)
              /\ finalizeLog' = Append(finalizeLog, [error |-> error, completed |-> TRUE])
              /\ pc' = "done"
              /\ outcome' = IF pc = "catch" THEN "rejected" ELSE "resolved"
              /\ thrown' = error
              /\ UNCHANGED <<caught, throwLog>>
           \/ /\ \E e \in {runReadFailed, runUpdateFailed} :
                   /\ finalizeLog' = Append(finalizeLog, [error |-> error, completed |-> FALSE])
                   /\ pc' = afterFinalizeThrow(pc)
                   /\ caught' = IF pc' = "catch" THEN Some(e) ELSE caught
                   /\ throwLog' = Append(throwLog, e)
                   /\ outcome' = IF pc' = "done" THEN "rejected" ELSE outcome
                   /\ thrown' = IF pc' = "done" THEN Some(e) ELSE thrown
              /\ UNCHANGED runRow
  /\ conns' = delivered(conns, subscribed, channel, channel')
  /\ UNCHANGED <<redactVars, apiVars, twoVars, streamVars, input, kbStore, redisUp, step, fallbackUsed, state, chargebackHistory,
                 kbHits, kbStage, guards, trace, metrics, elapsed, invoked, lookups>>

\* await this.finalizeRun() of the try block (pc = "finalize") and
\* await this.finalizeRun(error); throw error of the catch block (pc = "catch")
FinalizeRun ==
  /\ pc \in {"finalize", "catch"}
  /\ LET error == IF pc = "catch" THEN caught ELSE None
     IN \/ /\ runRow' = finalizedRow(runRow, state, fallbackUsed, elapsed)
           /\ events' = Append(events,
                          dispatched("decision_finalized", finalizedData(error, state)))
           /\ channel' = published(channel, redisUp, events'[Len(events')])
           /\ finalizeLog' = Append(finalizeLog, [error |-> error, completed |-> TRUE])
           /\ pc' = "done"
           /\ outcome' = IF pc = "catch" THEN "rejected" ELSE "resolved"
           /\ thrown' = error
           /\ caught' = caught
           /\ throwLog' = throwLog
        \/ /\ \E e \in {runReadFailed, runUpdateFailed} :
                /\ finalizeLog' = Append(finalizeLog, [error |-> error, completed |-> FALSE])
                /\ pc' = afterFinalizeThrow(pc)
                /\ caught' = IF pc' = "catch" THEN Some(e) ELSE caught
                /\ throwLog' = Append(throwLog, e)
                /\ outcome' = IF pc' = "done" THEN "rejected" ELSE outcome
                /\ thrown' = IF pc' = "done" THEN Some(e) ELSE thrown
           /\ UNCHANGED <<runRow, events, channel>>
  /\ conns' = delivered(conns, subscribed, channel, channel')
  /\ UNCHANGED <<redactVars, apiVars, twoVars, streamVars, input, kbStore, redisUp, step, fallbackUsed, state, chargebackHistory,
                 kbHits, kbStage, guards, trace, metrics, elapsed, invoked, lookups>>

Next ==
  \/ LoadContext
  \/ RiskNoTxn
  \/ RiskReadHistory
  \/ RiskAgentCall
  \/ KbLookupCall
  \/ FnSettles
  \/ TimerFires
  \/ FnSettlesLate
  \/ RunAgentTrace
  \/ RunAgentDispatch
  \/ Decide
  \/ FinalizeRun

Spec == Init /\ [][Next]_vars

\* The event loop runs every callback that is ready and fires every armed
\* timer, and an awaited persistence or publish call settles: a step of the
\* run that can be taken is taken
\* The runs whose liveness is checked: without and with a transaction, with
\* lookups, with the simulated timeout, against the seeded knowledge base
LiveScenarios ==
  { Scenario(None, <<>>, <<>>),
    Scenario(None, <<txn_cafe, txn_grocery>>, <<>>),
    Scenario(Some(txn_dispute), <<txn_dispute>>, <<Case("DISPUTE", 10400)>>),
    Scenario(Some(txn_timeout), <<txn_cafe, txn_timeout>>, <<>>) }
LiveInit ==
  /\ Init
  /\ input \in LiveScenarios
  /\ kbStore = <<kb_preauth, kb_dispute, kb_travel, kb_freeze>>
SpecLive == LiveInit /\ [][Next]_vars /\ WF_vars(Next)


(***************************************************************************)
(* FraudAgent.analyze on its own: the inputs of one call are drawn from a  *)
(* family of windows around one subject transaction, and the call is the   *)
(* single step.                                                            *)
(***************************************************************************)
MaxBurst == 5
MaxCases == 3

\* the subject of the call, at minute 10400
analyzeSubject(amount, mcc, country, device, sim) ==
  Txn("txn_subject", "The Corner Cafe", mcc, amount, 10400, device, country, sim)

\* the i-th earlier transaction of the window, i minutes before the subject,
\* at another merchant, on the customer's usual device, at home
burstTxn(i) ==
  Txn("txn_burst_" \o ToString(i), "Daily Groceries", "5411", 15000, 10400 - i,
      "dev_home", "IN", FALSE)

\* the i-th earlier transaction when the customer is a regular of the
\* subject's merchant: the same merchant, 25000 cents each time
repeatTxn(i) ==
  Txn("txn_repeat_" \o ToString(i), "The Corner Cafe", "5814", 25000, 10400 - i,
      "dev_home", "IN", FALSE)

\* recentTx, ordered by ts desc: the subject and n earlier transactions
analyzeWindow(subject, n, regular) ==
  <<subject>> \o [i \in 1..n |-> IF regular THEN repeatTxn(i) ELSE burstTxn(i)]

\* c dispute cases of the customer inside the 90 days
analyzeCases(c) == [i \in 1..c |-> Case("DISPUTE", 10400 - i)]

\* the input of one call
analyzeInput(amount, mcc, country, device, sim, n, c, regular) ==
  Scenario(Some(analyzeSubject(amount, mcc, country, device, sim)),
           analyzeWindow(analyzeSubject(amount, mcc, country, device, sim), n, regular),
           analyzeCases(c))

analyzeAmounts == {25000, 100000, 100001, 150000}

AnalyzeInputs ==
  { analyzeInput(amount, mcc, country, device, sim, n, c, regular) :
      amount \in analyzeAmounts, mcc \in {"5814", "7995"},
      country \in {"IN", "MT"}, device \in {"dev_home", "dev_new"},
      sim \in BOOLEAN, n \in 0..MaxBurst, c \in 0..MaxCases, regular \in BOOLEAN }

\* no run, no stream, no redaction under way; the position is that of the
\* call the specification is about
callStart(position) ==
  /\ kbStore = <<>>
  /\ redisUp = TRUE
  /\ pc = position
  /\ step = 0
  /\ fallbackUsed = FALSE
  /\ state = [fraudReport |-> None, kbHits |-> None, finalDecision |-> None]
  /\ chargebackHistory = input.cases
  /\ kbHits = <<>>
  /\ kbStage = 1
  /\ caught = None
  /\ guards = <<>>
  /\ trace = <<>>
  /\ runRow = [id |-> runId, ended_at |-> None, latency_ms |-> None, risk |-> "MEDIUM",
               reasons |-> <<"RUNNING">>, fallback_used |-> FALSE, updates |-> 0]
  /\ events = <<>>
  /\ channel = <<>>
  /\ metrics = [toolCalls |-> <<>>, agentFallbackTotal |-> 0]
  /\ elapsed = 0
  /\ outcome = "pending"
  /\ thrown = None
  /\ invoked = <<>>
  /\ finalizeLog = <<>>
  /\ throwLog = <<>>
  /\ lookups = <<>>
  /\ post = "none"
  /\ pendingTriageStates = <<>>
  /\ subscribed = FALSE
  /\ orchestrators = 0
  /\ conns = [c \in Connections |-> newConn]
  /\ payload = Null
  /\ redacted = <<>>

\* nothing but the call of analyze
analyzeStart == oneRun /\ pageIdle /\ actionIdle /\ callStart("analyze")

AnalyzeInit == input \in AnalyzeInputs /\ analyzeStart

\* await FraudAgent.analyze(recentTx, alertTxn, customer, chargebackHistory):
\* the report it resolves with, and after how many milliseconds
AnalyzeCall ==
  /\ pc = "analyze"
  /\ LET settles == analyze(input.recentTx, input.suspect_txn[1], chargebackHistory,
                            input.clock)
     IN /\ state' = [state EXCEPT !.fraudReport = Some(settles.value)]
        /\ elapsed' = settles.at
  /\ pc' = "analyzed"
  /\ UNCHANGED <<redactVars, apiVars, twoVars, streamVars, conns, input, kbStore, redisUp, step, fallbackUsed, chargebackHistory, kbHits,
                 kbStage, caught, guards, trace, runRow, events, channel, metrics,
                 outcome, thrown, invoked, lookups, finalizeLog, throwLog>>

AnalyzeNext == AnalyzeCall

SpecAnalyze == AnalyzeInit /\ [][AnalyzeNext]_vars

(***************************************************************************)
(* FraudAgent.analyze on windows built around single rules: the velocity   *)
(* windows, the devices of the prior transactions, the countries           *)
(***************************************************************************)
MaxEdge == 1
MaxPrior == 6
MaxCountries == 4

\* a transaction of the window at another merchant than the subject's
ruleTxn(id, ts, device, country) ==
  Txn(id, "Daily Groceries", "5411", 15000, ts, device, country, FALSE)

\* the subject of these calls: usual amount, usual MCC, no simulation flag
ruleSubject(device, country) == analyzeSubject(25000, "5814", country, device, FALSE)

\* recentTx, ordered by ts desc: `later' transactions one minute after the
\* subject, the subject, then transactions on the far edge of the 5 minutes,
\* just outside them, on the far edge of the hour, just outside it, on the
\* far edge of the day, and `older' ones just outside the day; n5, n60 and
\* n24 are the numbers inside the 5 minutes, the hour and the day, the
\* subject included
velocityWindow(n5, n60, n24, later, older) ==
  LET now == 10400
      group(name, n, ts) ==
        [i \in 1..n |-> ruleTxn(name \o ToString(i), ts, "dev_home", "IN")]
  IN group("txn_later_", later, now + 1)
       \o <<ruleSubject("dev_home", "IN")>>
       \o group("txn_5min_", n5 - 1, now - FiveMinutes)
       \o group("txn_hour_", n60 - n5 - 1, now - FiveMinutes - 1)
       \o group("txn_houredge_", 1, now - OneHour)
       \o group("txn_day_", n24 - n60 - 1, now - OneHour - 1)
       \o group("txn_dayedge_", 1, now - OneDay)
       \o group("txn_older_", older, now - OneDay - 1)

velocityInputs ==
  { Scenario(Some(ruleSubject("dev_home", "IN")),
             velocityWindow(n5, n60, n24, later, older), <<>>) :
      n5 \in {Velocity5MinMax, Velocity5MinMax + 1},
      n60 \in {VelocityHourMax, VelocityHourMax + 1},
      n24 \in {VelocityDayMax, VelocityDayMax + 1},
      later \in 0..MaxEdge, older \in 0..MaxEdge }

\* device_id of the subject and of the earlier transactions (String?)
subjectDevices == {"dev_home", "dev_new", "null", ""}
priorDevices == UNION {[1..n -> {"dev_home", "dev_new", "null"}] : n \in 0..MaxPrior}

\* the subject and, ten minutes apart, earlier transactions on the devices ds
deviceWindow(device, ds) ==
  <<ruleSubject(device, "IN")>>
    \o [i \in 1..Len(ds) |-> ruleTxn("txn_prior_" \o ToString(i), 10400 - 10 * i, ds[i], "IN")]

deviceInputs ==
  { Scenario(Some(ruleSubject(device, "IN")), deviceWindow(device, ds), <<>>) :
      device \in subjectDevices, ds \in priorDevices }

ruleCountries == {"IN", "MT", "US"}
windowCountries == UNION {[1..n -> ruleCountries] : n \in 0..MaxCountries}

\* earlier transactions in the countries cs, two days apart, after the
\* subject when it is among the recent transactions read for the run
countryWindow(country, listed, cs) ==
  (IF listed THEN <<ruleSubject("dev_home", country)>> ELSE <<>>)
    \o [i \in 1..Len(cs) |-> ruleTxn("txn_abroad_" \o ToString(i), 10400 - 2 * OneDay * i,
                                     "dev_home", cs[i])]

countryInputs ==
  { Scenario(Some(ruleSubject("dev_home", country)),
             countryWindow(country, listed, cs), <<>>) :
      country \in ruleCountries, listed \in BOOLEAN, cs \in windowCountries }

RuleInputs == velocityInputs \cup deviceInputs \cup countryInputs

RuleInit == input \in RuleInputs /\ analyzeStart

RuleNext == AnalyzeCall

SpecRules == RuleInit /\ [][RuleNext]_vars


(***************************************************************************)
(* RedactorAgent.redactObject as a program of its own: a payload is drawn, *)
(* redactObject is called on it, and called again on what it returned (as  *)
(* runAgent and dispatch do with the detail of a tool_update).             *)
(***************************************************************************)
MaxChunks == 3

\* The pieces texts are made of: a 13-digit and a 7-digit number, an address,
\* and the characters the two patterns are sensitive to
redactChunks ==
  << <<"4", "1", "1", "1", "1", "1", "1", "1", "1", "1", "1", "1", "1">>,
     <<"1", "2", "3", "4", "5", "6", "7">>,
     <<"x", "@", "b", ".", "c", "o">>,
     <<"@">>, <<".">>, <<"_">>, <<" ">>, <<"|">> >>

RECURSIVE concatChunks(_)
concatChunks(ix) ==
  IF ix = <<>> THEN <<>> ELSE redactChunks[Head(ix)] \o concatChunks(Tail(ix))

redactTexts ==
  {concatChunks(ix) : ix \in UNION {[1..n -> 1..Len(redactChunks)] : n \in 0..MaxChunks}}

\* the texts of nested properties
nestedTexts == {concatChunks(<<3>>), concatChunks(<<1, 2>>), concatChunks(<<2, 2>>)}

\* A string, an array and an object holding the text, as the details and
\* decisions of a run hold reasons, extracts and messages
redactPayloads ==
  {Null, Num(0), Num(125000)}
    \cup {Str(text) : text \in redactTexts}
    \cup {Arr(<<Str(text), Num(7), Null>>) : text \in redactTexts}
    \cup {Obj(<<Prop("notes", Str(text)), Prop("amount_cents", Num(125000)),
                Prop("customer", Obj(<<Prop("email", Str(nested))>>)),
                Prop("reasons", Arr(<<Str(nested), Str(text)>>)),
                Prop("error", Null)>>) :
            text \in redactTexts, nested \in nestedTexts}

RedactInit ==
  /\ oneRun /\ pageIdle /\ actionIdle
  /\ input = Scenario(None, <<>>, <<>>)
  /\ kbStore = <<>>
  /\ redisUp = TRUE
  /\ pc = "redact"
  /\ step = 0
  /\ fallbackUsed = FALSE
  /\ state = [fraudReport |-> None, kbHits |-> None, finalDecision |-> None]
  /\ chargebackHistory = <<>>
  /\ kbHits = <<>>
  /\ kbStage = 1
  /\ caught = None
  /\ guards = <<>>
  /\ trace = <<>>
  /\ runRow = [id |-> runId, ended_at |-> None, latency_ms |-> None, risk |-> "MEDIUM",
               reasons |-> <<"RUNNING">>, fallback_used |-> FALSE, updates |-> 0]
  /\ events = <<>>
  /\ channel = <<>>
  /\ metrics = [toolCalls |-> <<>>, agentFallbackTotal |-> 0]
  /\ elapsed = 0
  /\ outcome = "pending"
  /\ thrown = None
  /\ invoked = <<>>
  /\ finalizeLog = <<>>
  /\ throwLog = <<>>
  /\ lookups = <<>>
  /\ post = "none"
  /\ pendingTriageStates = <<>>
  /\ subscribed = FALSE
  /\ orchestrators = 0
  /\ conns = [c \in Connections |-> newConn]
  /\ payload \in redactPayloads
  /\ redacted = <<>>

\* RedactorAgent.redactObject(payload)
RedactCall ==
  /\ pc = "redact"
  /\ redacted' = Append(redacted, redactObject(payload))
  /\ payload' = payload
  /\ pc' = "redactAgain"
  /\ UNCHANGED <<apiVars, twoVars, streamVars, conns, input, kbStore, redisUp, step, fallbackUsed, state, chargebackHistory,
                 kbHits, kbStage, caught, guards, trace, runRow, events, channel, metrics,
                 elapsed, outcome, thrown, invoked, lookups, finalizeLog, throwLog>>

\* RedactorAgent.redactObject on the value the first call returned
RedactAgain ==
  /\ pc = "redactAgain"
  /\ redacted' = Append(redacted, redactObject(redacted[1]))
  /\ payload' = payload
  /\ pc' = "redactedTwice"
  /\ UNCHANGED <<apiVars, twoVars, streamVars, conns, input, kbStore, redisUp, step, fallbackUsed, state, chargebackHistory,
                 kbHits, kbStage, caught, guards, trace, runRow, events, channel, metrics,
                 elapsed, outcome, thrown, invoked, lookups, finalizeLog, throwLog>>

RedactNext == RedactCall \/ RedactAgain

SpecRedact == RedactInit /\ [][RedactNext]_vars

(***************************************************************************)
(* POST /triage and GET /triage/:runId/stream, one action per awaited step *)
(* and per callback. The pipeline is TriageOrchestrator.run as above,      *)
(* started by the timer of the stream handler.                             *)
(***************************************************************************)
\* the variables of the run besides its row
runVars == <<pc, step, fallbackUsed, state, chargebackHistory, kbHits, kbStage, caught,
             guards, trace, events, channel, metrics, elapsed, outcome, thrown, invoked,
             finalizeLog, throwLog, lookups>>

\* What POST /triage reads: an alert with or without its suspect
\* transaction, and the customer's recent transactions
StreamScenarios ==
  { Scenario(None, <<>>, <<>>),
    Scenario(None, <<txn_nomerchant>>, <<>>) }

\* alert.suspect_txn, or the most recent transaction
suspectTransaction(sc) ==
  IF IsSome(sc.suspect_txn) THEN sc.suspect_txn
  ELSE IF Len(sc.recentTx) > 0 THEN Some(sc.recentTx[1]) ELSE None

\* { alert: alertWithTxn, customer, recentTx }
initialState(sc) == [sc EXCEPT !.suspect_txn = suspectTransaction(sc)]

StreamInit ==
  /\ oneRun /\ pageIdle /\ actionIdle
  /\ input \in StreamScenarios
  /\ kbStore = <<kb_preauth, kb_dispute, kb_travel, kb_freeze>>
  /\ redisUp = TRUE
  /\ pc = "idle"
  /\ step = 0
  /\ fallbackUsed = FALSE
  /\ state = [fraudReport |-> None, kbHits |-> None, finalDecision |-> None]
  /\ chargebackHistory = <<>>
  /\ kbHits = <<>>
  /\ kbStage = 1
  /\ caught = None
  /\ guards = <<>>
  /\ trace = <<>>
  /\ runRow = [id |-> runId, ended_at |-> None, latency_ms |-> None, risk |-> "undefined",
               reasons |-> <<>>, fallback_used |-> FALSE, updates |-> 0]
  /\ events = <<>>
  /\ channel = <<>>
  /\ metrics = [toolCalls |-> <<>>, agentFallbackTotal |-> 0]
  /\ elapsed = 0
  /\ outcome = "pending"
  /\ thrown = None
  /\ invoked = <<>>
  /\ finalizeLog = <<>>
  /\ throwLog = <<>>
  /\ lookups = <<>>
  /\ post = "received"
  /\ pendingTriageStates = <<>>
  /\ subscribed = FALSE
  /\ orchestrators = 0
  /\ conns = [c \in Connections |-> newConn]
  /\ payload = Null
  /\ redacted = <<>>

\* POST /triage: no suspect transaction and no recent one, status 404
PostNotFound ==
  /\ post = "received"
  /\ ~IsSome(suspectTransaction(input))
  /\ post' = "notFound"
  /\ UNCHANGED <<pendingTriageStates, subscribed, orchestrators, conns, runRow>>
  /\ UNCHANGED <<redactVars, apiVars, twoVars, input, kbStore, redisUp, runVars>>

\* POST /triage: prisma.triageRun.create with risk MEDIUM
PostCreateRun ==
  /\ post = "received"
  /\ IsSome(suspectTransaction(input))
  /\ runRow' = [runRow EXCEPT !.risk = "MEDIUM"]
  /\ post' = "created"
  /\ UNCHANGED <<pendingTriageStates, subscribed, orchestrators, conns>>
  /\ UNCHANGED <<redactVars, apiVars, twoVars, input, kbStore, redisUp, runVars>>

\* the pipeline is started before the response is sent
PostAccept_startsPipeline ==
  /\ post = "created"
  /\ runRow' = [runRow EXCEPT !.reasons = <<"RUNNING">>]
  /\ pendingTriageStates' = <<initialState(input)>>
  /\ post' = "accepted"
  /\ orchestrators' = orchestrators + 1
  /\ pc' = "loadContext"
  /\ input' = initialState(input)
  /\ UNCHANGED <<subscribed, conns>>
  /\ UNCHANGED <<redactVars, apiVars, twoVars, kbStore, redisUp, step, fallbackUsed, state,
                 chargebackHistory, kbHits, kbStage, caught, guards, trace, events,
                 channel, metrics, elapsed, outcome, thrown, invoked, finalizeLog,
                 throwLog, lookups>>

\* POST /triage, the rest: reasons set to PENDING_START, the initial state
\* stored in the map, status 202 with the run id. No orchestrator is made.
PostAccept ==
  /\ post = "created"
  /\ runRow' = [runRow EXCEPT !.reasons = <<"PENDING_START">>]
  /\ pendingTriageStates' = <<initialState(input)>>
  /\ post' = "accepted"
  /\ UNCHANGED <<subscribed, orchestrators, conns>>
  /\ UNCHANGED <<redactVars, apiVars, twoVars, input, kbStore, redisUp, runVars>>

\* handleSse up to the awaited subscribe: headers and plan_built written to
\* res, onMessage registered, subscribe sent. The client has the run id
\* from the response of POST /triage.
Connect(c) ==
  /\ post = "accepted"
  /\ conns[c].at = "new"
  /\ conns' = [conns EXCEPT ![c].at = "subscribing", ![c].listener = TRUE]
  /\ UNCHANGED <<streamVars, runRow>>
  /\ UNCHANGED <<redactVars, apiVars, twoVars, input, kbStore, redisUp, runVars>>

\* await redisSubscriber.subscribe(channel) resolved; req.on('close', ...)
\* is registered, too late to run when the client has closed already
SubscribeConfirmed(c) ==
  /\ conns[c].at = "subscribing"
  /\ subscribed' = TRUE
  /\ conns' = [conns EXCEPT ![c].at = "reading",
                            ![c].closeHandler = ~conns[c].closed,
                            ![c].subscribedAt = Len(channel)]
  /\ UNCHANGED <<post, pendingTriageStates, orchestrators, runRow>>
  /\ UNCHANGED <<redactVars, apiVars, twoVars, input, kbStore, redisUp, runVars>>

\* await redisSubscriber.subscribe(channel) rejected: res.end(), the error
\* is thrown out of handleSse and out of the route handler
SubscribeFails(c) ==
  /\ conns[c].at = "subscribing"
  /\ conns' = [conns EXCEPT ![c].at = "failed"]
  /\ UNCHANGED <<streamVars, runRow>>
  /\ UNCHANGED <<redactVars, apiVars, twoVars, input, kbStore, redisUp, runVars>>

\* await prisma.triageRun.findUnique and the test of reasons and of the map
ReadRun(c) ==
  /\ conns[c].at = "reading"
  /\ conns' = [conns EXCEPT ![c].at =
                 IF runRow.reasons = <<"PENDING_START">> /\ pendingTriageStates # <<>>
                 THEN "updating" ELSE "streaming"]
  /\ UNCHANGED <<streamVars, runRow>>
  /\ UNCHANGED <<redactVars, apiVars, twoVars, input, kbStore, redisUp, runVars>>

\* await prisma.triageRun.update({ reasons: 'RUNNING' }) and the two
\* setTimeout calls
UpdateRun(c) ==
  /\ conns[c].at = "updating"
  /\ runRow' = [runRow EXCEPT !.reasons = <<"RUNNING">>]
  /\ conns' = [conns EXCEPT ![c].at = "scheduled", ![c].cleanup = "armed"]
  /\ UNCHANGED streamVars
  /\ UNCHANGED <<redactVars, apiVars, twoVars, input, kbStore, redisUp, runVars>>

\* The 100 ms timer: new TriageOrchestrator(runId, initialState) and run().
\* The run of the first orchestrator is followed; a further one is counted.
StartTimer(c) ==
  /\ conns[c].at = "scheduled"
  /\ conns' = [conns EXCEPT ![c].at = "streaming"]
  /\ orchestrators' = orchestrators + 1
  /\ IF orchestrators = 0
     THEN pc' = "loadContext" /\ input' = initialState(input)
     ELSE UNCHANGED <<pc, input>>
  /\ UNCHANGED <<post, pendingTriageStates, subscribed, runRow>>
  /\ UNCHANGED <<redactVars, apiVars, twoVars, kbStore, redisUp, step, fallbackUsed, state,
                 chargebackHistory, kbHits, kbStage, caught, guards, trace, events,
                 channel, metrics, elapsed, outcome, thrown, invoked, finalizeLog,
                 throwLog, lookups>>

\* The 5 s timer, after the 100 ms timer of the same handler:
\* pendingTriageStates.delete(runId)
CleanupTimer(c) ==
  /\ conns[c].at = "streaming"
  /\ conns[c].cleanup = "armed"
  /\ pendingTriageStates' = <<>>
  /\ conns' = [conns EXCEPT ![c].cleanup = "fired"]
  /\ UNCHANGED <<post, subscribed, orchestrators, runRow>>
  /\ UNCHANGED <<redactVars, apiVars, twoVars, input, kbStore, redisUp, runVars>>

\* the close handler also ends the run
Close_endsRun(c) ==
  /\ conns[c].at \notin {"new", "failed"}
  /\ ~conns[c].closed
  /\ conns' = [conns EXCEPT ![c].closed = TRUE,
                            ![c].listener = IF conns[c].closeHandler THEN FALSE ELSE @]
  /\ subscribed' = IF conns[c].closeHandler THEN FALSE ELSE subscribed
  /\ pc' = IF pc = "idle" THEN pc ELSE "done"
  /\ UNCHANGED <<post, pendingTriageStates, orchestrators, runRow>>
  /\ UNCHANGED <<redactVars, apiVars, twoVars, input, kbStore, redisUp, step, fallbackUsed, state,
                 chargebackHistory, kbHits, kbStage, caught, guards, trace, events,
                 channel, metrics, elapsed, outcome, thrown, invoked, finalizeLog,
                 throwLog, lookups>>

\* The client disconnects. When the 'close' handler is registered it runs:
\* redisSubscriber.off('message', onMessage), redisSubscriber.unsubscribe(channel)
\* on the connection every stream shares, res.end()
Close(c) ==
  /\ conns[c].at \notin {"new", "failed"}
  /\ ~conns[c].closed
  /\ conns' = [conns EXCEPT ![c].closed = TRUE,
                            ![c].listener = IF conns[c].closeHandler THEN FALSE ELSE @]
  /\ subscribed' = IF conns[c].closeHandler THEN FALSE ELSE subscribed
  /\ UNCHANGED <<post, pendingTriageStates, orchestrators, runRow>>
  /\ UNCHANGED <<redactVars, apiVars, twoVars, input, kbStore, redisUp, runVars>>

\* The route gives every orchestrator a transaction, so the branch of run()
\* for a missing one is not among the steps; the alerts read here name no
\* merchant and their report asks for no lookup, so stage 3 starts none
StreamNext ==
  \/ PostNotFound
  \/ PostCreateRun
  \/ PostAccept
  \/ \E c \in Connections : Connect(c)
  \/ \E c \in Connections : SubscribeConfirmed(c)
  \/ \E c \in Connections : SubscribeFails(c)
  \/ \E c \in Connections : ReadRun(c)
  \/ \E c \in Connections : UpdateRun(c)
  \/ \E c \in Connections : StartTimer(c)
  \/ \E c \in Connections : CleanupTimer(c)
  \/ \E c \in Connections : Close(c)
  \/ LoadContext
  \/ RiskReadHistory
  \/ RiskAgentCall
  \/ FnSettles
  \/ TimerFires
  \/ FnSettlesLate
  \/ RunAgentTrace
  \/ RunAgentDispatch
  \/ Decide
  \/ FinalizeRun

SpecStream == StreamInit /\ [][StreamNext]_vars

(***************************************************************************)
(* GET /customer/:id/transactions: a client that reads page after page     *)
(***************************************************************************)
MaxLimit == 2
DefaultLimit == 50

\* a Transaction row as the query reads it; ids are strings, here sequences
\* of characters, ts a Date
PageRow(id, ts, customer_id) == [id |-> id, ts |-> ts, customer_id |-> customer_id]

pageCustomer == "cust_1"
pageCandidates ==
  { PageRow(<<"b">>, 3, "cust_1"), PageRow(<<"a">>, 2, "cust_1"),
    PageRow(<<"c">>, 2, "cust_1"), PageRow(<<"a", "_", "1">>, 1, "cust_1"),
    PageRow(<<"a", "_", "2">>, 1, "cust_1"), PageRow(<<"d">>, 2, "cust_2") }

\* code units of the characters of the ids
charCode(c) ==
  CASE c = "1" -> 49 [] c = "2" -> 50 [] c = "_" -> 95
    [] c = "a" -> 97 [] c = "b" -> 98 [] c = "c" -> 99 [] c = "d" -> 100

\* a < b for strings, as the database compares the id column
RECURSIVE strLess(_, _)
strLess(a, b) ==
  IF b = <<>> THEN FALSE
  ELSE IF a = <<>> THEN TRUE
  ELSE IF Head(a) # Head(b) THEN charCode(Head(a)) < charCode(Head(b))
  ELSE strLess(Tail(a), Tail(b))

\* Date.prototype.toISOString and new Date(string) on the instants of the rows
toISOString(ts) == <<ToString(ts)>>
parseDate(chars) == CHOOSE ts \in {r.ts : r \in pageCandidates} : toISOString(ts) = chars

\* String.prototype.split('_')
RECURSIVE splitUnderscore(_)
splitUnderscore(chars) ==
  LET at == {i \in 1..Len(chars) : chars[i] = "_"}
  IN IF at = {} THEN <<chars>>
     ELSE LET i == CHOOSE k \in at : \A j \in at : k <= j
          IN <<SubSeq(chars, 1, i - 1)>> \o splitUnderscore(SubSeq(chars, i + 1, Len(chars)))

\* Buffer.from(s, 'utf-8').toString('base64') and back
toBase64(chars) == [base64 |-> chars]
fromBase64(c) == c.base64

\* the cursor of an item: base64 of "<ts ISO>_<id>"
cursorOf(item) == toBase64(toISOString(item.ts) \o <<"_">> \o item.id)

\* const [tsStr, id] = decoded.split('_'); ts = new Date(tsStr)
decodeCursor(c) ==
  LET parts == splitUnderscore(fromBase64(c))
  IN [ts |-> parseDate(parts[1]), id |-> parts[2]]

\* the WHERE clause: the customer's rows and, with a cursor,
\* ts < cursor.ts OR (ts = cursor.ts AND id < cursor.id)
pageWhere(rows, c) ==
  {r \in rows :
     /\ r.customer_id = pageCustomer
     /\ IsSome(c) =>
          LET k == decodeCursor(c[1])
          IN r.ts < k.ts \/ (r.ts = k.ts /\ strLess(r.id, k.id))}

\* orderBy: [{ ts: 'desc' }, { id: 'desc' }]
RECURSIVE pageOrder(_)
pageOrder(rows) ==
  IF rows = {} THEN <<>>
  ELSE LET top == CHOOSE r \in rows : \A o \in rows \ {r} :
                    r.ts > o.ts \/ (r.ts = o.ts /\ strLess(o.id, r.id))
       IN <<top>> \o pageOrder(rows \ {top})

\* parseInt(limitStr, 10) || 50; the parameter absent is 0 here
pageSize(param) == IF param = 0 THEN DefaultLimit ELSE param

\* RedactorAgent.redactObject(items): the id strings through redactString
redactItems(items) == [i \in 1..Len(items) |-> [items[i] EXCEPT !.id = redactChars(@)]]

PageInit ==
  /\ input = Scenario(None, <<>>, <<>>)
  /\ oneRun /\ actionIdle /\ callStart("page")
  /\ txnRows \in SUBSET pageCandidates
  /\ limit \in 0..MaxLimit
  /\ cursor = None
  /\ collected = <<>>
  /\ pagePc = "paging"

\* One request with the cursor of the response before: findMany with
\* take: limit + 1, the extra item popped and made the next cursor
PageRequest ==
  /\ pagePc = "paging"
  /\ LET items == Slice0(pageOrder(pageWhere(txnRows, cursor)), pageSize(limit) + 1)
         more == Len(items) > pageSize(limit)
         page == IF more THEN SubSeq(items, 1, Len(items) - 1) ELSE items
     IN /\ cursor' = IF more THEN Some(cursorOf(items[Len(items)])) ELSE None
        /\ collected' = collected \o redactItems(page)
        /\ pagePc' = IF more THEN "paging" ELSE "done"
  /\ UNCHANGED <<txnRows, limit>>
  /\ UNCHANGED <<redactVars, actionVars, twoVars, streamVars, conns, input, kbStore, redisUp,
                 runVars, runRow>>

PageNext == PageRequest

SpecPage == PageInit /\ [][PageNext]_vars

(***************************************************************************)
(* POST /action/freeze-card: two requests, one step per awaited call       *)
(***************************************************************************)
Requests == {"req_1", "req_2"}
IdempotencyKeys == {"key_1"}
cardId == "card_1"
\* the otp of a request body: absent (""), the demo default, the two values
\* generateOTP draws here, and a value nobody issued
defaultOTP == "123456"
generatedOTPs == {"111111", "222222"}
requestOTPs == {"", defaultOTP, "111111", "000000"}

lowKyc(level) == level \in {"LVL_0", "LVL_1"}

\* the policy check with LVL_1 customers exempt
checkFreezeCardPolicy_level0Only(level, hasOTP) ==
  IF level = "LVL_0" /\ ~hasOTP
  THEN [allowed |-> FALSE, requiresOTP |-> TRUE, policyCode |-> "OTP_REQUIRED_FOR_FREEZE"]
  ELSE [allowed |-> TRUE, requiresOTP |-> FALSE, policyCode |-> "undefined"]
\* ComplianceAgent.checkFreezeCardPolicy(cardId, kycLevel, hasOTP)
checkFreezeCardPolicy(level, hasOTP) ==
  IF lowKyc(level) /\ ~hasOTP
  THEN [allowed |-> FALSE, requiresOTP |-> TRUE, policyCode |-> "OTP_REQUIRED_FOR_FREEZE"]
  ELSE [allowed |-> TRUE, requiresOTP |-> FALSE, policyCode |-> "undefined"]

\* ComplianceAgent.verifyOTP(cardId, otp) against the stored value
verifyOTP(stored, otp) == IF IsSome(stored) THEN stored[1] = otp ELSE otp = defaultOTP

\* a response: the HTTP status and, of the body, status and caseId
Response(code, status, caseId) == [code |-> code, status |-> status, caseId |-> caseId]

newRequest(card, key, otp) ==
  [at |-> "start", cardId |-> card, key |-> key, otp |-> otp, otpValid |-> None,
   caseId |-> 0, response |-> None]

ActionInit ==
  /\ input = Scenario(None, <<>>, <<>>)
  /\ oneRun /\ pageIdle /\ callStart("action")
  /\ cardStatus = "ACTIVE"
  /\ kycLevel \in {"LVL_0", "LVL_1", "LVL_2"}
  /\ caseRows = <<>>
  /\ auditRows = <<>>
  /\ idempotency = [k \in IdempotencyKeys |-> None]
  /\ otpStore = None
  /\ requests \in [Requests -> {newRequest(card, key, otp) :
                                  card \in {cardId, "card_0"},
                                  key \in IdempotencyKeys \cup {""},
                                  otp \in requestOTPs}]

actionRest ==
  /\ UNCHANGED <<kycLevel>>
  /\ UNCHANGED <<redactVars, pageVars, twoVars, streamVars, conns, input, kbStore, redisUp,
                 runVars, runRow>>

respond(r, response) ==
  requests' = [requests EXCEPT ![r].at = "responded", ![r].response = Some(response)]
goto(r, at) == requests' = [requests EXCEPT ![r].at = at]

\* await redis.get of the idempotency key: the cached response with status
\* 200 on a hit; without a key the handler goes straight on
CacheGet(r) ==
  /\ requests[r].at = "start"
  /\ IF requests[r].key # "" /\ IsSome(idempotency[requests[r].key])
     THEN respond(r, [idempotency[requests[r].key][1] EXCEPT !.code = 200])
     ELSE goto(r, "findCard")
  /\ UNCHANGED <<cardStatus, caseRows, auditRows, idempotency, otpStore>>
  /\ actionRest

\* await prisma.card.findUnique, then the policy check on the customer's
\* kyc_level and !!otp, and where the handler goes from its result
FindCard(r) ==
  /\ requests[r].at = "findCard"
  /\ LET policyCheck == checkFreezeCardPolicy(kycLevel, requests[r].otp # "")
     IN IF requests[r].cardId # cardId
        THEN respond(r, Response(404, "Card not found", 0))
        ELSE IF ~policyCheck.allowed
        THEN goto(r, "generateOTP")
        ELSE IF requests[r].otp # ""
        THEN goto(r, "verifyOTP")
        ELSE goto(r, "updateCard")
  /\ UNCHANGED <<cardStatus, caseRows, auditRows, idempotency, otpStore>>
  /\ actionRest

\* await ComplianceAgent.generateOTP(cardId): redis.set otp:<cardId>, and
\* the 403 answer PENDING_OTP
GenerateOTP(r) ==
  /\ requests[r].at = "generateOTP"
  /\ \E otp \in generatedOTPs : otpStore' = Some(otp)
  /\ respond(r, Response(403, "PENDING_OTP", 0))
  /\ UNCHANGED <<cardStatus, caseRows, auditRows, idempotency>>
  /\ actionRest

\* await ComplianceAgent.verifyOTP(cardId, otp)
VerifyOTP(r) ==
  /\ requests[r].at = "verifyOTP"
  /\ LET otpValid == verifyOTP(otpStore, requests[r].otp)
     IN IF otpValid
        THEN requests' = [requests EXCEPT ![r].at = "updateCard",
                                          ![r].otpValid = Some(TRUE)]
        ELSE requests' = [requests EXCEPT ![r].at = "responded",
                                          ![r].otpValid = Some(FALSE),
                                          ![r].response =
                                            Some(Response(403, "PENDING_OTP", 0))]
  /\ UNCHANGED <<cardStatus, caseRows, auditRows, idempotency, otpStore>>
  /\ actionRest

\* await prisma.card.update({ status: 'FROZEN' })
UpdateCard(r) ==
  /\ requests[r].at = "updateCard"
  /\ cardStatus' = "FROZEN"
  /\ goto(r, "createCase")
  /\ UNCHANGED <<caseRows, auditRows, idempotency, otpStore>>
  /\ actionRest

\* await prisma.case.create
CreateCase(r) ==
  /\ requests[r].at = "createCase"
  /\ caseRows' = Append(caseRows, [id |-> Len(caseRows) + 1, type |-> "FRAUD_REPORT",
                                   reason_code |-> "AGENT_FREEZE", request |-> r,
                                   key |-> requests[r].key])
  /\ requests' = [requests EXCEPT ![r].at = "logEvent", ![r].caseId = Len(caseRows) + 1]
  /\ UNCHANGED <<cardStatus, auditRows, idempotency, otpStore>>
  /\ actionRest

\* await AuditService.logEvent(caseId, actor, 'FREEZE_CARD', { cardId, otpVerified });
\* without a key the answer follows at once
LogEvent(r) ==
  /\ requests[r].at = "logEvent"
  /\ auditRows' = Append(auditRows, [case_id |-> requests[r].caseId, action |-> "FREEZE_CARD",
                                     otpVerified |-> requests[r].otp # "", request |-> r,
                                     key |-> requests[r].key])
  /\ IF requests[r].key = ""
     THEN respond(r, Response(200, "FROZEN", requests[r].caseId))
     ELSE goto(r, "cacheSet")
  /\ UNCHANGED <<cardStatus, caseRows, idempotency, otpStore>>
  /\ actionRest

\* await redis.set(idempotency:action:<key>, response, 'EX', 86400) and the
\* answer
CacheSet(r) ==
  /\ requests[r].at = "cacheSet"
  /\ idempotency' = [idempotency EXCEPT ![requests[r].key] =
                       Some(Response(200, "FROZEN", requests[r].caseId))]
  /\ respond(r, Response(200, "FROZEN", requests[r].caseId))
  /\ UNCHANGED <<cardStatus, caseRows, auditRows, otpStore>>
  /\ actionRest

\* the 'EX', 300 of otp:<cardId> runs out
OtpExpires ==
  /\ pc = "action"
  /\ IsSome(otpStore)
  /\ otpStore' = None
  /\ UNCHANGED <<cardStatus, caseRows, auditRows, idempotency, requests>>
  /\ actionRest

ActionNext ==
  \/ OtpExpires
  \/ \E r \in Requests :
    \/ CacheGet(r)
    \/ FindCard(r)
    \/ GenerateOTP(r)
    \/ VerifyOTP(r)
    \/ UpdateCard(r)
    \/ CreateCase(r)
    \/ LogEvent(r)
    \/ CacheSet(r)

SpecAction == ActionInit /\ [][ActionNext]_vars

(***************************************************************************)
(* Two runs for different alerts, executing concurrently. Each is a        *)
(* TriageOrchestrator instance with its own fields, rows and channel; the  *)
(* event loop runs a step of one, then possibly a step of the other. The   *)
(* variables of the pipeline are those of the instance taking steps, the   *)
(* other instance is kept in `other`. Both streams are connected and       *)
(* redisSubscriber is subscribed to both channels.                         *)
(***************************************************************************)
RunIds == {"run_1", "run_2"}

\* the instance taking steps: its fields, locals, rows, events and channel
thisRun ==
  [runId |-> activeRun,
   input |-> input,
   pc |-> pc,
   step |-> step,
   fallbackUsed |-> fallbackUsed,
   state |-> state,
   chargebackHistory |-> chargebackHistory,
   kbHits |-> kbHits,
   kbStage |-> kbStage,
   caught |-> caught,
   guards |-> guards,
   trace |-> trace,
   runRow |-> runRow,
   events |-> events,
   channel |-> channel,
   elapsed |-> elapsed,
   outcome |-> outcome,
   thrown |-> thrown,
   invoked |-> invoked,
   finalizeLog |-> finalizeLog,
   throwLog |-> throwLog,
   lookups |-> lookups]

\* a new instance, as Init makes it
newRun(id, initial) ==
  [runId |-> id, input |-> initial, pc |-> "loadContext", step |-> 0,
   fallbackUsed |-> FALSE,
   state |-> [fraudReport |-> None, kbHits |-> None, finalDecision |-> None],
   chargebackHistory |-> <<>>, kbHits |-> <<>>, kbStage |-> 1, caught |-> None,
   guards |-> <<>>, trace |-> <<>>,
   runRow |-> [id |-> id, ended_at |-> None, latency_ms |-> None, risk |-> "MEDIUM",
               reasons |-> <<"RUNNING">>, fallback_used |-> FALSE, updates |-> 0],
   events |-> <<>>, channel |-> <<>>, elapsed |-> 0, outcome |-> "pending",
   thrown |-> None, invoked |-> <<>>, finalizeLog |-> <<>>, throwLog |-> <<>>,
   lookups |-> <<>>]

\* the alerts of the two runs
FirstScenarios == { Scenario(Some(txn_otp), <<txn_cafe, txn_otp, txn_grocery>>, <<>>) }
SecondScenarios == { Scenario(None, <<>>, <<>>), Scenario(Some(txn_nomerchant), <<txn_nomerchant>>, <<>>) }

\* a connection whose handler has returned and which is streaming
streaming(run) ==
  [connFor(run) EXCEPT !.at = "streaming", !.listener = TRUE, !.closeHandler = TRUE]

TwoInit ==
  /\ pageIdle /\ actionIdle
  /\ activeRun = "run_1"
  /\ \E first \in FirstScenarios :
       LET run == newRun("run_1", first)
       IN /\ input = run.input
          /\ pc = run.pc
          /\ step = run.step
          /\ fallbackUsed = run.fallbackUsed
          /\ state = run.state
          /\ chargebackHistory = run.chargebackHistory
          /\ kbHits = run.kbHits
          /\ kbStage = run.kbStage
          /\ caught = run.caught
          /\ guards = run.guards
          /\ trace = run.trace
          /\ runRow = run.runRow
          /\ events = run.events
          /\ channel = run.channel
          /\ elapsed = run.elapsed
          /\ outcome = run.outcome
          /\ thrown = run.thrown
          /\ invoked = run.invoked
          /\ finalizeLog = run.finalizeLog
          /\ throwLog = run.throwLog
          /\ lookups = run.lookups
  /\ \E second \in SecondScenarios : other = Some(newRun("run_2", second))
  /\ kbStore = <<kb_preauth, kb_dispute, kb_travel, kb_freeze>>
  /\ redisUp = TRUE
  /\ metrics = [toolCalls |-> <<>>, agentFallbackTotal |-> 0]
  /\ post = "accepted"
  /\ pendingTriageStates = <<>>
  /\ subscribed = TRUE
  /\ orchestrators = 1
  /\ conns = [c \in Connections |-> IF c = "first" THEN streaming("run_1")
                                                   ELSE streaming("run_2")]
  /\ payload = Null
  /\ redacted = <<>>

\* the event loop turns to the other instance
Switch ==
  /\ IsSome(other)
  /\ other' = Some(thisRun)
  /\ activeRun' = other[1].runId
  /\ input' = other[1].input
  /\ pc' = other[1].pc
  /\ step' = other[1].step
  /\ fallbackUsed' = other[1].fallbackUsed
  /\ state' = other[1].state
  /\ chargebackHistory' = other[1].chargebackHistory
  /\ kbHits' = other[1].kbHits
  /\ kbStage' = other[1].kbStage
  /\ caught' = other[1].caught
  /\ guards' = other[1].guards
  /\ trace' = other[1].trace
  /\ runRow' = other[1].runRow
  /\ events' = other[1].events
  /\ channel' = other[1].channel
  /\ elapsed' = other[1].elapsed
  /\ outcome' = other[1].outcome
  /\ thrown' = other[1].thrown
  /\ invoked' = other[1].invoked
  /\ finalizeLog' = other[1].finalizeLog
  /\ throwLog' = other[1].throwLog
  /\ lookups' = other[1].lookups
  /\ UNCHANGED <<redactVars, apiVars, streamVars, conns, kbStore, redisUp, metrics>>

TwoNext ==
  \/ Switch
  \/ Next

SpecTwoRuns == TwoInit /\ [][TwoNext]_vars

(***************************************************************************)
(* Properties                                                              *)
(***************************************************************************)
finalizedAt == {i \in 1..Len(events) : events[i].event = "decision_finalized"}
toolUpdates == SelectSeq(events, LAMBDA e : e.event = "tool_update")
lastFinalizeCompleted == Len(finalizeLog) > 0 /\ finalizeLog[Len(finalizeLog)].completed
\* the stage function of guard g timed out or rejected
stageDegraded(g) == g.b.kind # "resolve" \/ g.b.at >= TimeoutMs

\* C1: at most one decision_finalized event is ever dispatched for the run and
\* nothing (no tool_update in particular) is dispatched after it; when run()
\* has settled and its last finalizeRun call returned, under any combination
\* of stage results, timeouts and rejections, exactly one has been dispatched.
C1_OneTerminalEventLast ==
  /\ Cardinality(finalizedAt) <= 1
  /\ \A i \in finalizedAt : i = Len(events)
  /\ (pc = "done" /\ lastFinalizeCompleted) => Cardinality(finalizedAt) = 1

\* C1 witness: a finished run with a degraded stage whose function settled
\* after the terminal event, exactly one terminal event, tool_updates before it
C1_Witness ==
  /\ pc = "done" /\ Cardinality(finalizedAt) = 1 /\ Len(toolUpdates) >= 2
  /\ \E i \in 1..Len(guards) :
       /\ guards[i].timer = "fired" /\ guards[i].fn # "pending"
       /\ guards[i].resolveCalls = 2
  /\ \E i \in 1..Len(guards) : guards[i].b.kind = "reject"

\* C2: when run() has settled, finalizeRun was invoked exactly once, and a
\* rejected run() rejected only after that call updated the run summary and
\* dispatched the terminal event.
C2_FinalizeExactlyOnce ==
  pc = "done" =>
    /\ Len(finalizeLog) = 1
    /\ outcome = "rejected" =>
         (finalizeLog[1].completed /\ runRow.updates = 1 /\ Cardinality(finalizedAt) = 1)

\* C3: the persisted trace rows carry seq 1, 2, ... in the order the stages
\* were invoked, each with the name of its invocation; when run() has settled
\* there is one row per stage invocation (loadContext, riskSignals, each
\* kbLookup that ran), less the one invocation whose trace write threw.
C3_TraceSeqContiguous ==
  /\ Len(trace) <= Len(invoked)
  /\ \A i \in 1..Len(trace) : trace[i].seq = i /\ trace[i].step = invoked[i]
  /\ pc = "done" =>
       Len(trace) = Len(invoked)
                      - Cardinality({i \in 1..Len(throwLog) : throwLog[i] = traceWriteFailed})

\* C3 witness: a settled run with all three lookups: five rows, seq 1..5
C3_Witness ==
  /\ pc = "done" /\ Len(trace) = 5 /\ Len(invoked) = 5
  /\ trace[5].seq = 5 /\ trace[5].step = "kbLookup"

\* the number of unguarded trace rows that precede the first guarded call
unguardedRows == IF IsSome(selectTxn(input)) THEN 1 ELSE 2
\* the subject transaction carries metadata.simulate_risk_timeout
simulatedSubject ==
  IsSome(selectTxn(input)) /\ selectTxn(input)[1].simulate_risk_timeout

\* C4: the promise withTimeout returns is never rejected and settles once, at
\* the first of "fn settled" and "timer fired": with fn's result when fn
\* resolves before the timer, with the fallback when the timer fires first or
\* fn rejects; a later settlement of fn does not change it.
C4_WithTimeoutSettlesOnce ==
  \A i \in 1..Len(guards) :
    LET g == guards[i] IN
      /\ IsSome(g.settled) <=> (g.fn # "pending" \/ g.timer = "fired")
      /\ IsSome(g.settled) =>
           g.settled[1] = IF g.b.kind = "resolve" /\ g.b.at < TimeoutMs
                          THEN Ref("result", g.b.value)
                          ELSE Ref("fallback", g.fallback)
      /\ g.resolveCalls = (IF g.fn # "pending" THEN 1 ELSE 0)
                            + (IF g.timer = "fired" THEN 1 ELSE 0)

\* C4 witness: one guard settled by its function's result, another settled by
\* its timer whose function resolved afterwards (second resolve call)
C4_Witness ==
  /\ \E i \in 1..Len(guards) :
       guards[i].settled = Some(Ref("result", guards[i].b.value)) /\ guards[i].timer = "cleared"
  /\ \E i \in 1..Len(guards) :
       /\ guards[i].b.kind = "resolve" /\ guards[i].fn = "resolved"
       /\ guards[i].timer = "fired" /\ guards[i].resolveCalls = 2
       /\ guards[i].settled = Some(Ref("fallback", guards[i].fallback))

\* C5: a guarded call starts only after every earlier guarded call settled and
\* had its trace row written and its tool_update dispatched; the k-th
\* tool_update is the k-th guarded call's, and its trace row is written first.
C5_StagesSequential ==
  /\ \A i \in 1..(Len(guards) - 1) :
       /\ IsSome(guards[i].settled)
       /\ Len(toolUpdates) >= i /\ Len(trace) >= i + unguardedRows
  /\ Len(toolUpdates) <= Len(guards)
  /\ \A j \in 1..Len(toolUpdates) :
       /\ toolUpdates[j].data.step = guards[j].step
       /\ Len(trace) >= j + unguardedRows
       /\ trace[j + unguardedRows].step = guards[j].step
  /\ pc = "agentDispatch" =>
       /\ Len(trace) = Len(guards) + unguardedRows
       /\ Len(toolUpdates) = Len(guards) - 1

\* C5 witness: the third lookup is in flight after three completed guarded calls
C5_Witness ==
  /\ pc = "awaitAgent" /\ Len(guards) = 4 /\ Len(toolUpdates) = 3
  /\ ~IsSome(guards[4].settled)

\* C6: every completed runAgent call has exactly one trace row and exactly one
\* tool_update, with the call's step name and the same ok flag; ok is true iff
\* the value withTimeout returned is not the fallback object; when ok is false
\* the event's detail is null and the run's fallback flag is set.
C6_OneTraceOneEvent ==
  /\ \A j \in 1..Len(toolUpdates) :
       LET g == guards[j]
           row == trace[j + unguardedRows]
           ev == toolUpdates[j].data
       IN /\ row.step = g.step /\ ev.step = g.step
          /\ row.ok = ev.ok /\ row.duration_ms = ev.duration_ms
          /\ ev.ok <=> g.settled[1].ref # "fallback"
          /\ ~ev.ok => (ev.detail = None /\ fallbackUsed)
          /\ ev.ok => (IsSome(ev.detail) /\ ev.detail = Some(row.detail_json))
  /\ pc \in {"kbLookup", "finalize"} =>
       /\ Len(toolUpdates) = Len(guards)
       /\ Len(trace) = Len(guards) + unguardedRows

\* C6 witness: a finished run with an ok call that returned an empty hit list
\* and a call that returned the fallback
C6_Witness ==
  /\ pc = "done" /\ Len(toolUpdates) = Len(guards)
  /\ \E j \in 1..Len(toolUpdates) :
       /\ toolUpdates[j].data.ok /\ guards[j].settled[1].value = <<>>
  /\ \E j \in 1..Len(toolUpdates) :
       ~toolUpdates[j].data.ok /\ toolUpdates[j].data.detail = None

\* what the run's history says about degradation
degradedInRun ==
  \/ \E i \in 1..Len(guards) :
       IsSome(guards[i].settled) /\ guards[i].settled[1].ref = "fallback"
  \/ ~IsSome(selectTxn(input)) /\ Len(invoked) >= 2
  \/ /\ IsSome(state.fraudReport) /\ Len(guards) >= 1
     /\ guards[1].settled[1].ref = "result"
     /\ \/ ~FraudReportSchema_ok(guards[1].settled[1].value)
        \/ guards[1].settled[1].value.fallback_used = Some(TRUE)

C7_PersistedFlag == runRow.updates > 0 => (runRow.fallback_used <=> degradedInRun)

\* C7: the fallback flag is never reset once set, and the fallback_used value
\* finalize persists is true iff a guarded stage returned its fallback, the
\* fraud report failed validation, no subject transaction was available, or
\* the fraud report carried fallback_used = true.
C7_StickyFallback == [](C7_PersistedFlag) /\ [][fallbackUsed => fallbackUsed']_vars

\* C7 witness: the flag persisted as true only because the report failed
\* validation, and persisted as such
C7_Witness ==
  /\ runRow.updates = 1 /\ runRow.fallback_used
  /\ \A i \in 1..Len(guards) : guards[i].settled[1].ref = "result"
  /\ state.fraudReport = Some(validationFallback)

\* C8: a settled run in which some guarded stage function timed out or
\* rejected, and in which no persistence call and no KB-hit validation threw,
\* has resolved, its last event is the decision-shaped decision_finalized, and
\* fallback_used is persisted as true.
C8_DegradedStageNeverFails ==
  (pc = "done" /\ throwLog = <<>> /\ \E i \in 1..Len(guards) : stageDegraded(guards[i])) =>
    /\ outcome = "resolved"
    /\ events[Len(events)].event = "decision_finalized"
    /\ events[Len(events)].data.shape = "decision"
    /\ IsSome(events[Len(events)].data.decision)
    /\ runRow.updates = 1 /\ runRow.fallback_used

\* C8 witness: a resolved run whose fraud scoring rejected and one of whose KB
\* searches timed out
C8_Witness ==
  /\ pc = "done" /\ outcome = "resolved" /\ Len(guards) >= 2
  /\ guards[1].step = "riskSignals" /\ guards[1].b.kind = "reject"
  /\ \E i \in 2..Len(guards) : guards[i].b.kind = "never"

C10_SimulatedTimeoutRecorded ==
  simulatedSubject =>
    /\ IsSome(state.fraudReport) =>
         /\ state.fraudReport[1].score = "MEDIUM"
         /\ state.fraudReport[1].recommendedAction = "OPEN_DISPUTE"
         /\ state.fraudReport[1].fallback_used = Some(TRUE)
    /\ (runRow.updates > 0 /\ IsSome(state.fraudReport)) =>
         (runRow.risk = "MEDIUM" /\ runRow.fallback_used)
    /\ runRow.risk # "HIGH"
    /\ runRow.risk = "LOW" => ~IsSome(state.fraudReport)

\* C10 witness: a flagged subject the scoring rules would rate HIGH, recorded
\* as MEDIUM with fallback_used
C10_Witness ==
  /\ simulatedSubject /\ pc = "done" /\ runRow.updates = 1
  /\ scoreRules(input.recentTx, selectTxn(input)[1], input.cases, input.clock).score = "HIGH"
  /\ runRow.risk = "MEDIUM" /\ runRow.fallback_used

\* the last dispatched event is the success-shaped decision_finalized
finalizedWithDecision ==
  /\ Len(events) > 0
  /\ events[Len(events)].event = "decision_finalized"
  /\ events[Len(events)].data.shape = "decision"
  /\ IsSome(events[Len(events)].data.decision)

\* the alert has no linked transaction and the window is empty
noTransaction == ~IsSome(input.suspect_txn) /\ Len(input.recentTx) = 0

\* C11: without a linked transaction and with an empty window, no guarded
\* call is ever made (no scoring engine, no KB lookup); after step 2 the fraud
\* report is LOW / NONE and the fallback flag is set; a run in which no
\* persistence call threw resolves with final action NONE, a decision-shaped
\* terminal event and fallback_used persisted.
C11_NoTransactionPath ==
  noTransaction =>
    /\ guards = <<>> /\ lookups = <<>>
    /\ \A i \in 1..Len(invoked) : invoked[i] \in {"loadContext", "riskSignals"}
    /\ pc \in {"kbLookup", "finalize"} => IsSome(state.fraudReport)
    /\ IsSome(state.fraudReport) =>
         /\ state.fraudReport[1].score = "LOW"
         /\ state.fraudReport[1].recommendedAction = "NONE"
         /\ fallbackUsed
    /\ (pc = "done" /\ throwLog = <<>>) =>
         /\ outcome = "resolved"
         /\ state.kbHits = Some(<<>>)
         /\ state.finalDecision[1].action = "NONE"
         /\ state.finalDecision[1].citations = <<>>
         /\ finalizedWithDecision
         /\ runRow.risk = "LOW" /\ runRow.fallback_used

\* C11 witness: the run without any transaction, resolved
C11_Witness ==
  /\ noTransaction /\ pc = "done" /\ outcome = "resolved"
  /\ Len(trace) = 2 /\ ~trace[2].ok /\ events[Len(events)].data.decision[1].action = "NONE"

\* the riskSignals stage function returned a report whose score is outside
\* the enumeration, inside the budget
riskResultMalformed ==
  /\ Len(guards) >= 1 /\ guards[1].step = "riskSignals"
  /\ IsSome(guards[1].settled) /\ guards[1].settled[1].ref = "result"
  /\ guards[1].settled[1].value.score \notin {"LOW", "MEDIUM", "HIGH"}

\* C12: when the report returned by the riskSignals stage fails validation,
\* the stored report is MEDIUM with the validation-failed reason and no
\* recommended action, the fallback flag is set although the stage call
\* itself was ok, and a run in which nothing threw resolves with final action
\* NONE and a decision-shaped terminal event.
C12_ValidationFallback ==
  riskResultMalformed =>
    /\ Len(toolUpdates) >= 1 =>
         /\ toolUpdates[1].data.ok
         /\ IsSome(state.fraudReport)
         /\ state.fraudReport[1].score = "MEDIUM"
         /\ state.fraudReport[1].reasons = <<"risk_validation_failed (fallback)">>
         /\ state.fraudReport[1].recommendedAction = "undefined"
         /\ fallbackUsed
    /\ (pc = "done" /\ throwLog = <<>>) =>
         /\ outcome = "resolved"
         /\ state.finalDecision[1].action = "NONE"
         /\ finalizedWithDecision
         /\ events[Len(events)].data.decision[1].action = "NONE"
         /\ runRow.risk = "MEDIUM" /\ runRow.fallback_used

\* C12 witness: a resolved run whose scoring returned the malformed report
\* and whose subject would otherwise have had its card frozen
C12_Witness ==
  /\ riskResultMalformed /\ pc = "done" /\ outcome = "resolved"
  /\ input.suspect_txn = Some(txn_otp)
  /\ state.fraudReport = Some(validationFallback)
  /\ state.finalDecision[1].reason = "risk_validation_failed (fallback)"

\* the facets of the working state are set in stage order
facetsInOrder ==
  /\ IsSome(state.finalDecision) => IsSome(state.kbHits)
  /\ IsSome(state.kbHits) => IsSome(state.fraudReport)
  /\ pc = "finalize" => IsSome(state.finalDecision)
  /\ outcome = "resolved" => IsSome(state.finalDecision)

\* a facet that is set keeps its value
facetsKept ==
  /\ IsSome(state.fraudReport) => state'.fraudReport = state.fraudReport
  /\ IsSome(state.kbHits) => state'.kbHits = state.kbHits
  /\ IsSome(state.finalDecision) => state'.finalDecision = state.finalDecision

\* C13: in every reachable state finalDecision set implies kbHits set, which
\* implies fraudReport set; finalizeRun of the success path is reached, and
\* the run resolves, only with finalDecision set; no step changes a facet
\* that is already set.
C13_ForwardOnly == [](facetsInOrder) /\ [][facetsKept]_vars

\* C13 witness: the success path at finalizeRun with the three facets set
C13_Witness ==
  /\ pc = "finalize" /\ IsSome(state.fraudReport) /\ IsSome(state.kbHits)
  /\ IsSome(state.finalDecision) /\ Len(state.kbHits[1]) > 0

\* lookup k of stage 3 was started in this run
lookupRan(k) == \E i \in 1..Len(lookups) : lookups[i].k = k

\* C14 as stated: once stage 3 is over, the merchant-name lookup has run iff
\* the subject transaction (the alert's linked transaction, or else the most
\* recent one of the window) has a merchant.
C14_MerchantLookupIffSubjectMerchant ==
  pc = "finalize" =>
    (lookupRan(1) <=> (IsSome(selectTxn(input)) /\ selectTxn(input)[1].merchant # ""))

\* the guarded KB searches of the run and what runAgent returned for each
kbGuards == SelectSeq(guards, LAMBDA g : g.step = "kbLookup")
returnedHits(i) ==
  IF i > Len(kbGuards) \/ ~IsSome(kbGuards[i].settled) THEN <<>>
  ELSE IF kbGuards[i].settled[1].ref = "result" THEN kbGuards[i].settled[1].value
  ELSE <<>>

\* the window holds a transaction with the subject's merchant, an amount
\* within the tolerance of the subject's, and another id
subjectHasNearDuplicate ==
  /\ IsSome(selectTxn(input))
  /\ \E i \in 1..Len(input.recentTx) :
        /\ input.recentTx[i].merchant = selectTxn(input)[1].merchant
        /\ Abs(input.recentTx[i].amount_cents - selectTxn(input)[1].amount_cents)
             < DuplicateToleranceCents
        /\ input.recentTx[i].id # selectTxn(input)[1].id

\* C15: at most three lookups are started, in the order merchant, pre-auth,
\* dispute, with the fixed queries; once stage 3 is over the pre-auth lookup
\* has run iff the subject has a near-duplicate in the window, the dispute
\* lookup iff the fraud report recommends OPEN_DISPUTE, and kbHits is the
\* concatenation, in that order and with repetitions, of what the lookups
\* returned.
C15_LookupsOfStage3 ==
  /\ Len(lookups) <= 3 /\ Len(kbGuards) = Len(lookups)
  /\ \A i \in 1..Len(lookups) :
       /\ lookups[i].k \in 1..3
       /\ \A j \in (i+1)..Len(lookups) : lookups[i].k < lookups[j].k
       /\ lookups[i].k = 2 => lookups[i].q = "pre-auth"
       /\ lookups[i].k = 3 => lookups[i].q = "dispute"
  /\ lookupRan(2) => subjectHasNearDuplicate
  /\ lookupRan(3) => state.fraudReport[1].recommendedAction = "OPEN_DISPUTE"
  /\ IsSome(state.kbHits) =>
       /\ lookupRan(2) <=> subjectHasNearDuplicate
       /\ lookupRan(3) <=> state.fraudReport[1].recommendedAction = "OPEN_DISPUTE"
       /\ state.kbHits[1] = returnedHits(1) \o returnedHits(2) \o returnedHits(3)

\* C15 witness: the merchant lookup and the pre-auth lookup both returned the
\* same document, which kbHits holds twice
C15_Witness ==
  /\ IsSome(state.kbHits) /\ Len(lookups) = 2
  /\ lookups[1].k = 1 /\ lookups[2].k = 2
  /\ Len(state.kbHits[1]) = 2 /\ state.kbHits[1][1] = state.kbHits[1][2]

\* the validated hits with the pre-auth-vs-capture anchor, and the
\* near-duplicates of the subject in window order
preAuthHits ==
  IF IsSome(state.kbHits)
  THEN SelectSeq(state.kbHits[1], LAMBDA h : h.anchor = "disputes:pre-auth-vs-capture")
  ELSE <<>>
subjectDuplicates ==
  IF ~IsSome(selectTxn(input)) THEN <<>>
  ELSE SelectSeq(input.recentTx,
         LAMBDA t : /\ t.merchant = selectTxn(input)[1].merchant
                    /\ Abs(t.amount_cents - selectTxn(input)[1].amount_cents)
                         < DuplicateToleranceCents
                    /\ t.id # selectTxn(input)[1].id)

\* the decision was made by the pre-auth override
preAuthOverride == Len(subjectDuplicates) > 0 /\ Len(preAuthHits) > 0

\* C16: when the subject has a near-duplicate in the window and the validated
\* hits hold one with anchor disputes:pre-auth-vs-capture, the final decision
\* has action NONE whatever the report recommended, the fixed pre-auth reason
\* without the OTP caveat, the first such hit as its only citation, and the
\* subject followed by its near-duplicates as relatedTransactions.
C16_PreAuthOverride ==
  (IsSome(state.finalDecision) /\ preAuthOverride) =>
    LET dec == state.finalDecision[1]
        subject == selectTxn(input)[1]
    IN /\ dec.action = "NONE"
       /\ dec.citations = <<preAuthHits[1]>>
       /\ dec.relatedTransactions = Some(<<subject>> \o subjectDuplicates)
       /\ dec.reasonCode = state.fraudReport[1].reasonCode
       /\ dec.reason =
            "Two transactions detected: pre-authorization hold and final capture at "
              \o subject.merchant \o ". This is normal for "
              \o (IF subject.mcc = "4121" THEN "ride-sharing" ELSE "this type of")
              \o " merchant. Not fraudulent."

\* C16 witness: the override applied to a report that recommended a dispute,
\* with dispute hits among the validated hits
C16_Witness ==
  /\ IsSome(state.finalDecision) /\ preAuthOverride
  /\ state.fraudReport[1].recommendedAction = "OPEN_DISPUTE"
  /\ Len(state.kbHits[1]) > 1
  /\ state.finalDecision[1].action = "NONE"
  /\ Len(state.finalDecision[1].relatedTransactions[1]) = 2

\* the documents of the table whose anchor starts with disputes: or whose
\* title contains "dispute" in any case
disputeDocIds == {"kb_preauth", "kb_dispute", "kb_travel"}

\* C17: outside the pre-auth override the citations of the final decision
\* are, when the final action is OPEN_DISPUTE, exactly the validated hits
\* whose anchor starts with disputes: or whose title contains "dispute"
\* case-insensitively, in their order, and are empty for any other action.
C17_DisputeCitations ==
  (IsSome(state.finalDecision) /\ ~preAuthOverride) =>
    state.finalDecision[1].citations =
      IF state.finalDecision[1].action = "OPEN_DISPUTE"
      THEN SelectSeq(state.kbHits[1], LAMBDA h : h.docId \in disputeDocIds)
      ELSE <<>>

\* C17 witness: three hits, of which one is cited for its anchor alone, one
\* for its title alone, and one is not cited
C17_Witness ==
  /\ IsSome(state.finalDecision) /\ ~preAuthOverride
  /\ state.finalDecision[1].action = "OPEN_DISPUTE"
  /\ Len(state.kbHits[1]) = 3 /\ Len(state.finalDecision[1].citations) = 2
  /\ \E i \in 1..2 : state.finalDecision[1].citations[i].docId = "kb_dispute"
  /\ \E i \in 1..2 : state.finalDecision[1].citations[i].docId = "kb_travel"

\* C18: outside the pre-auth override the final decision carries the fraud
\* report's recommended action (NONE when the report has none) and reason
\* code, and the report's first reason, to which the OTP policy caveat is
\* appended exactly when the action is FREEZE_CARD; it has no
\* relatedTransactions.
C18_DecisionCarriedThrough ==
  (IsSome(state.finalDecision) /\ ~preAuthOverride) =>
    LET dec == state.finalDecision[1]
        report == state.fraudReport[1]
    IN /\ dec.action = IF report.recommendedAction = "undefined" THEN "NONE"
                       ELSE report.recommendedAction
       /\ dec.reasonCode = report.reasonCode
       /\ dec.reason = IF dec.action = "FREEZE_CARD"
                       THEN report.reasons[1] \o " (Policy: OTP may be required for unfreeze)"
                       ELSE report.reasons[1]
       /\ dec.relatedTransactions = None

\* C18 witness: a FREEZE_CARD decision with the caveat appended to the first
\* of several reasons
C18_Witness ==
  /\ IsSome(state.finalDecision) /\ ~preAuthOverride
  /\ state.finalDecision[1].action = "FREEZE_CARD"
  /\ Len(state.fraudReport[1].reasons) > 1
  /\ state.finalDecision[1].reason =
       "High transaction amount (Policy: OTP may be required for unfreeze)"

\* the tally of the rules that fire on the input of the call
tally ==
  LET fired == firedRules(input.recentTx, input.suspect_txn[1], chargebackHistory,
                          input.clock)
  IN SumSeq([i \in 1..Len(fired) |-> fired[i].points])

\* the call was made without the simulation flag
analyzedUnflagged == pc = "analyzed" /\ ~input.suspect_txn[1].simulate_risk_timeout

inLastFiveMinutes ==
  {i \in 1..Len(input.recentTx) :
     /\ input.recentTx[i].ts >= input.suspect_txn[1].ts - 5
     /\ input.recentTx[i].ts <= input.suspect_txn[1].ts}

\* C20 as stated: six transactions within the 5 minutes ending at the
\* subject's timestamp and no other rule firing give HIGH with FREEZE_CARD.
C20_VelocityAloneIsHigh ==
  (/\ analyzedUnflagged
   /\ Cardinality(inLastFiveMinutes) = 6
   /\ state.fraudReport[1].reasons = <<"High velocity attack: txns in 5 min">>) =>
    /\ state.fraudReport[1].score = "HIGH"
    /\ state.fraudReport[1].recommendedAction = "FREEZE_CARD"

\* the report of the call, and whether it lists the recurring-charge reason
analyzedReport == state.fraudReport[1]
recurringFired ==
  \E i \in 1..Len(analyzedReport.reasons) :
     analyzedReport.reasons[i] = "Potential subscription charge from merchant"

\* the points of the rules that fired, the recurring-charge rule left out
tallyWithoutRecurring ==
  LET fired == firedRules(input.recentTx, input.suspect_txn[1], chargebackHistory,
                          input.clock)
      others == SelectSeq(fired,
                  LAMBDA r : r.reason # "Potential subscription charge from merchant")
  IN SumSeq([i \in 1..Len(others) |-> others[i].points])

\* C21: with a tally below 30 analyze returns LOW; the action is OPEN_DISPUTE
\* with reason code 13.7 iff the recurring-charge rule fired, otherwise NONE
\* without a reason code; the recurring-charge rule adds nothing to the tally.
C21_LowTier ==
  analyzedUnflagged =>
    /\ tally = tallyWithoutRecurring
    /\ tally < 30 =>
         /\ analyzedReport.score = "LOW"
         /\ recurringFired =>
              (analyzedReport.recommendedAction = "OPEN_DISPUTE"
                 /\ analyzedReport.reasonCode = "13.7")
         /\ ~recurringFired =>
              (analyzedReport.recommendedAction = "NONE"
                 /\ analyzedReport.reasonCode = "undefined")

\* C21 witness: the recurring-charge rule fired together with a 25-point
\* rule, tally 25: LOW with OPEN_DISPUTE and 13.7
C21_Witness ==
  /\ analyzedUnflagged /\ recurringFired /\ tally = 25
  /\ analyzedReport.score = "LOW" /\ analyzedReport.recommendedAction = "OPEN_DISPUTE"
  /\ analyzedReport.reasonCode = "13.7"

\* the inputs that differ from the call's input in one parameter of the family
neighbours ==
  LET subject == input.suspect_txn[1]
      amount == subject.amount_cents
      mcc == subject.mcc
      country == subject.country
      device == subject.device_id
      sim == subject.simulate_risk_timeout
      n == Len(input.recentTx) - 1
      c == Len(input.cases)
      regular == n > 0 /\ input.recentTx[2].merchant = subject.merchant
  IN {analyzeInput(a, mcc, country, device, sim, n, c, regular) : a \in analyzeAmounts}
       \cup {analyzeInput(amount, m, country, device, sim, n, c, regular) :
               m \in {"5814", "7995"}}
       \cup {analyzeInput(amount, mcc, k, device, sim, n, c, regular) : k \in {"IN", "MT"}}
       \cup {analyzeInput(amount, mcc, country, d, sim, n, c, regular) :
               d \in {"dev_home", "dev_new"}}
       \cup {analyzeInput(amount, mcc, country, device, sim, m, c, regular) :
               m \in 0..MaxBurst}
       \cup {analyzeInput(amount, mcc, country, device, sim, n, m, regular) :
               m \in 0..MaxCases}
       \cup {analyzeInput(amount, mcc, country, device, sim, n, c, r) : r \in BOOLEAN}

\* the rules that fire on an input, by their reasons
firedOn(in) ==
  LET fired == firedRules(in.recentTx, in.suspect_txn[1], in.cases, in.clock)
  IN {fired[i].reason : i \in 1..Len(fired)}

\* on input o the rules of input i fire and exactly one more
oneMoreRule(i, o) ==
  firedOn(i) \subseteq firedOn(o) /\ Cardinality(firedOn(o)) = Cardinality(firedOn(i)) + 1

tierRank(score) == CASE score = "LOW" -> 1 [] score = "MEDIUM" -> 2 [] score = "HIGH" -> 3

tierOn(in) == tierRank(analyze(in.recentTx, in.suspect_txn[1], in.cases, in.clock).value.score)

\* C22: for the analyzed input and every input that differs from it in one
\* parameter such that the same rules fire and exactly one more, the score
\* tier of the other input is at least the tier of the analyzed one.
C22_TierMonotone ==
  analyzedUnflagged =>
    \A o \in neighbours :
       oneMoreRule(input, o) => tierOn(o) >= tierRank(analyzedReport.score)

\* C22 witness: an input rated MEDIUM with a neighbour on which one more rule
\* fires and which is rated HIGH, and another such neighbour rated MEDIUM
C22_Witness ==
  /\ analyzedUnflagged /\ analyzedReport.score = "MEDIUM"
  /\ \E o \in neighbours : oneMoreRule(input, o) /\ tierOn(o) = 3
  /\ \E o \in neighbours : oneMoreRule(input, o) /\ tierOn(o) = 2

\* the reasons of the rules in the order in which analyze evaluates them
ruleOrder ==
  << "High transaction amount",
     "High velocity attack: txns in 5 min",
     "High velocity: txns in 1 hour",
     "Unusual daily velocity: txns today",
     "New device detected - potential account takeover risk",
     "Foreign transactions in several countries within 24h",
     "Unusual MCC",
     "Foreign transaction",
     "Customer has chargebacks in last 90 days",
     "Customer has chargeback history",
     "Potential subscription charge from merchant",
     "Ambiguous merchant name - difficult to verify legitimacy" >>
rulePosition(reason) == CHOOSE k \in 1..Len(ruleOrder) : ruleOrder[k] = reason

\* C23: the reasons analyze returns are never empty; when a rule fired they
\* are the reasons of the fired rules, each once, in evaluation order; they
\* are the single sentinel "No issues found." iff no rule fired, and then the
\* tally is 0 and the report is LOW with action NONE.
C23_ReasonsNeverEmpty ==
  analyzedUnflagged =>
    LET reasons == analyzedReport.reasons
        sentinel == <<"No issues found.">>
    IN /\ Len(reasons) >= 1
       /\ (reasons = sentinel) <=> (firedOn(input) = {})
       /\ reasons = sentinel =>
            /\ tally = 0 /\ analyzedReport.score = "LOW"
            /\ analyzedReport.recommendedAction = "NONE"
       /\ reasons # sentinel =>
            /\ {reasons[i] : i \in 1..Len(reasons)} = firedOn(input)
            /\ \A i \in 1..Len(reasons) : \E k \in 1..Len(ruleOrder) : ruleOrder[k] = reasons[i]
            /\ \A i \in 1..(Len(reasons) - 1) :
                 rulePosition(reasons[i]) < rulePosition(reasons[i + 1])

\* C23 witness: a call on which no rule fires, and the sentinel it returns
C23_Witness ==
  /\ analyzedUnflagged /\ firedOn(input) = {} /\ Len(input.recentTx) > 1
  /\ analyzedReport.reasons = <<"No issues found.">> /\ analyzedReport.score = "LOW"
(***************************************************************************)
(* C24: redaction before emission                                          *)
(***************************************************************************)
\* redactObject on the data of a tool_update and of a decision_finalized
redactToolUpdate(data) ==
  [data EXCEPT !.step = redactString(data.step),
               !.detail = IF IsSome(data.detail)
                          THEN Some(redactDetail(data.detail[1])) ELSE None]
redactFinalized(data) ==
  [data EXCEPT !.error = redactString(data.error), !.reason = redactString(data.reason),
               !.risk = redactString(data.risk),
               !.decision = IF IsSome(data.decision)
                            THEN Some(redactDecision(data.decision[1])) ELSE None]
redactEvent(ev) ==
  IF ev.event = "tool_update" THEN redactToolUpdate(ev.data) ELSE redactFinalized(ev.data)

\* a payload that redaction leaves as it is holds no card number or address
emittedRedacted(evs) == \A i \in 1..Len(evs) : redactEvent(evs[i]) = evs[i].data

\* the redacted forms of the two texts of the model that hold an address
redactedExtract == redactString(extractOf(kb_freeze.content_text))
redactedUpdateError == redactString(runUpdateFailed)
citesFreeze(hits) == \E j \in 1..Len(hits) : hits[j].extract = redactedExtract

\* C24: every detail_json persisted and the data of every event dispatched
\* and published is a value redactObject returned: redacting it again changes
\* nothing, so no card number or address is left in it. This holds for
\* tool_update and decision_finalized, on the success and the failure path.
C24_RedactedBeforeEmission ==
  /\ \A i \in 1..Len(trace) : redactDetail(trace[i].detail_json) = trace[i].detail_json
  /\ emittedRedacted(events)
  /\ emittedRedacted(channel)

\* C24 witness: a lookup returned the freeze policy, whose extract holds an
\* address: it is persisted and published redacted; then the update of the
\* run fails with a message holding an address and the error payload is
\* published with the message redacted
C24_Witness ==
  /\ \E i \in 1..Len(trace) :
       /\ trace[i].detail_json.outputType = "hits" /\ trace[i].ok
       /\ citesFreeze(trace[i].detail_json.output[1])
  /\ \E i \in 1..Len(channel) :
       /\ channel[i].event = "tool_update" /\ IsSome(channel[i].data.detail)
       /\ channel[i].data.detail[1].outputType = "hits"
       /\ citesFreeze(channel[i].data.detail[1].output[1])
  /\ \E i \in 1..Len(channel) :
       /\ channel[i].event = "decision_finalized" /\ channel[i].data.shape = "error"
       /\ channel[i].data.reason = redactedUpdateError
       /\ redactedUpdateError # runUpdateFailed

(***************************************************************************)
(* C25: redactObject is idempotent and leaves its argument alone           *)
(***************************************************************************)
redactedTwice == pc = "redactedTwice"

\* C25: for every payload, redacting the redacted value returns the redacted
\* value again, and the payload handed to redactObject is the same value
\* after each call as before it.
C25_RedactIdempotentNoMutation ==
  /\ [](redactedTwice => redacted[1] = redactObject(payload) /\ redacted[2] = redacted[1])
  /\ [][payload' = payload]_vars

\* C25 witness: an object whose texts hold a card number and two addresses
\* was redacted twice; the first call replaced them and the payload still
\* holds them
C25_Witness ==
  /\ redactedTwice /\ payload.t = "object"
  /\ payload.items[1].text = concatChunks(<<3, 7, 3>>)
  /\ payload.items[3].items[1].text = concatChunks(<<2, 2>>)
  /\ redacted[1].items[1].text = redactedToken \o <<" ">> \o redactedToken
  /\ redacted[1].items[3].items[1].text = redactedToken
  /\ redacted[1].items[4].items[2].text = redacted[1].items[1].text
  /\ redacted[1].items[2] = payload.items[2]
(***************************************************************************)
(* C26: a started run finalizes                                            *)
(***************************************************************************)
terminalPublished ==
  /\ channel # <<>>
  /\ channel[Len(channel)].event = "decision_finalized"
callsReturned == throwLog = <<>> /\ redisUp
neverSettles(g) == g.b.kind = "never"

\* C26: every run comes to its end having called finalizeRun, whatever the
\* stage functions do, and when no persistence call threw and the publish
\* calls succeed its terminal event is the last message on the channel; the
\* time spent waiting in guarded calls is at most one timeout per call.
C26_RunFinalizes ==
  /\ <>(/\ pc = "done" /\ finalizeLog # <<>>
        /\ callsReturned => terminalPublished)
  /\ [](elapsed <= Len(guards) * TimeoutMs)

\* C26 witness: a run with a risk stage and a lookup, none of whose stage
\* functions ever settled, ended with its terminal event published after one
\* timeout per guarded call
C26_Witness ==
  /\ pc = "done" /\ callsReturned /\ terminalPublished
  /\ Len(guards) >= 2 /\ \A i \in 1..Len(guards) : neverSettles(guards[i])
  /\ elapsed = Len(guards) * TimeoutMs
(***************************************************************************)
(* C27 - C30: the run and its stream connections                           *)
(***************************************************************************)
\* the subscription of the connection has been confirmed
confirmed(c) == conns[c].at \in {"reading", "updating", "scheduled", "streaming"}
disconnects == \E c \in Connections : conns'[c].closed /\ ~conns[c].closed
runUnderWay == pc \notin {"idle", "done"}
runStep ==
  \/ LoadContext \/ RiskReadHistory \/ RiskAgentCall \/ FnSettles \/ TimerFires
  \/ RunAgentTrace \/ RunAgentDispatch \/ Decide \/ FinalizeRun

\* C27: a disconnect changes nothing of the run (its position, its state, its
\* trace, its events, the channel, its row); while the run is under way a
\* step of it can be taken whatever the connections are; and every event
\* dispatched is published whether or not the channel has a subscriber.
C27_DisconnectLeavesRunAlone ==
  /\ [][disconnects => UNCHANGED <<runVars, runRow, input, orchestrators>>]_vars
  /\ [](runUnderWay => ENABLED runStep)
  /\ [][Len(events') > Len(events) => channel' = Append(channel, events'[Len(events')])]_vars

\* C27 witness: both connections closed before anything was published, no
\* subscription is left, and the run ended with its tool_update and its
\* decision_finalized published
C27_Witness ==
  /\ pc = "done" /\ outcome = "resolved" /\ ~subscribed
  /\ \A c \in Connections : conns[c].closed /\ conns[c].received = <<>>
  /\ Len(channel) >= 2
  /\ channel[1].event = "tool_update"
  /\ channel[Len(channel)].event = "decision_finalized"

\* C28: until POST /triage has answered and some connection's subscription
\* has been confirmed, no orchestrator exists and nothing is dispatched or
\* published; an orchestrator is started only by the timer of a stream
\* handler, which is armed after that handler's subscribe resolved.
C28_NoEventBeforeSubscription ==
  /\ []((post # "accepted" \/ \A c \in Connections : ~confirmed(c)) =>
          /\ pc = "idle" /\ orchestrators = 0
          /\ events = <<>> /\ channel = <<>> /\ trace = <<>>)
  /\ [][orchestrators' > orchestrators =>
          \E c \in Connections :
            /\ confirmed(c) /\ conns[c].at = "scheduled" /\ conns'[c].at = "streaming"]_vars

\* C28 witness: the response of POST /triage was sent with no orchestrator;
\* a connection subscribed before anything was published and has received
\* the events published since
C28_Witness ==
  /\ post = "accepted" /\ orchestrators = 1 /\ channel # <<>>
  /\ \E c \in Connections :
       /\ confirmed(c) /\ conns[c].subscribedAt = 0
       /\ conns[c].received = [i \in 1..Len(channel) |-> i]

\* C29: at most one TriageOrchestrator is started for the run, however the
\* stream connections interleave.
C29_AtMostOneOrchestrator == orchestrators <= 1

\* C30: when the first connection has disconnected and the second, whose
\* subscription was confirmed before anything was published, stays
\* connected, the second has received every message published by the time
\* the run ends.
C30_SecondReceivesAll ==
  ( /\ pc = "done"
    /\ conns["first"].closed
    /\ confirmed("second") /\ ~conns["second"].closed
    /\ conns["second"].subscribedAt = 0 )
  => conns["second"].received = [i \in 1..Len(channel) |-> i]

(***************************************************************************)
(* C33 - C35: the run summary, late settlements, empty KB results          *)
(***************************************************************************)
errorShaped(ev) == ev.event = "decision_finalized" /\ ev.data.shape = "error"

\* C33: when run() has resolved, the persisted summary has the risk of the
\* state's fraud report and the orchestrator's fallback flag, the state has
\* a final decision, and the last event is decision_finalized with that
\* decision and that risk; an error-shaped decision_finalized is only ever
\* dispatched while the state has no final decision.
C33_SummaryMatchesState ==
  /\ (pc = "done" /\ outcome = "resolved") =>
       /\ IsSome(state.fraudReport) /\ runRow.risk = state.fraudReport[1].score
       /\ runRow.fallback_used = fallbackUsed
       /\ IsSome(state.finalDecision)
       /\ finalizedWithDecision
       /\ events[Len(events)].data.decision = state.finalDecision
       /\ events[Len(events)].data.risk = state.fraudReport[1].score
  /\ \A i \in 1..Len(events) : errorShaped(events[i]) => ~IsSome(state.finalDecision)

\* a stage function settles in this step after its guard's timer has fired
lateSettlement ==
  \E i \in 1..Len(guards) :
    /\ guards[i].timer = "fired" /\ guards[i].fn = "pending"
    /\ guards'[i].fn # "pending"

\* C34: a step in which a stage function settles after its guard timed out
\* changes nothing of the run (position, sequence counter, state, fallback
\* flag, hits, trace, events, channel, summary, metrics) nor the value any
\* guard settled with; and what a timed-out guard gave the pipeline (the
\* fallback, a tool_update with ok = false built from the fallback alone) is
\* the same whether its function is still pending, resolved or rejected.
C34_LateSettlementChangesNothing ==
  /\ [][lateSettlement =>
          /\ UNCHANGED <<pc, step, state, fallbackUsed, kbHits, kbStage, trace, events,
                         channel, runRow, metrics, elapsed, outcome, caught>>
          /\ \A i \in 1..Len(guards) : guards'[i].settled = guards[i].settled]_vars
  /\ [](\A i \in 1..Len(guards) :
          guards[i].timer = "fired" =>
            /\ guards[i].settled = Some(Ref("fallback", guards[i].fallback))
            /\ agentReturn(guards[i]) = guards[i].fallback
            /\ i <= Len(toolUpdates) =>
                 toolUpdates[i].data =
                   toolUpdateData(guards[i].step, FALSE, TimeoutMs,
                                  agentDetail(guards[i].step,
                                              Ref("fallback", guards[i].fallback))))

\* C34 witness: run() resolved with the fallback of a timed-out stage whose
\* function resolved afterwards, while the run was still going on
C34_Witness ==
  /\ pc = "done" /\ outcome = "resolved" /\ fallbackUsed
  /\ \E i \in 1..Len(guards) :
       /\ guards[i].timer = "fired" /\ guards[i].fn = "resolved"
       /\ guards[i].resolveCalls = 2
       /\ ~toolUpdates[i].data.ok

\* the guarded call is a KB search that resolved inside the budget with an
\* empty list, its fallback being an empty list as well
emptySearch(g) ==
  /\ g.step # "riskSignals"
  /\ g.b.kind = "resolve" /\ g.b.at < TimeoutMs /\ g.b.value = <<>>
  /\ g.fallback = <<>>

\* C35: a KB search that resolved inside its budget with an empty list
\* settles its guard with the result, not with the fallback; the step of
\* runAgent that takes it writes a trace row with ok = true and leaves the
\* fallback flag as it was, and its tool_update has ok = true.
C35_EmptySearchSucceeds ==
  /\ [](\A i \in 1..Len(guards) :
          (emptySearch(guards[i]) /\ IsSome(guards[i].settled)) =>
            /\ guards[i].settled = Some(Ref("result", <<>>))
            /\ i <= Len(toolUpdates) =>
                 (toolUpdates[i].data.ok /\ toolUpdates[i].data.step = guards[i].step))
  /\ [][(pc = "awaitAgent" /\ pc' # "awaitAgent" /\ emptySearch(guards[Len(guards)])) =>
          /\ fallbackUsed' = fallbackUsed
          /\ Len(trace') > Len(trace) => trace'[Len(trace')].ok]_vars

\* C35 witness: a resolved run whose flag is not set although one of its KB
\* searches returned an empty list
C35_Witness ==
  /\ pc = "done" /\ outcome = "resolved" /\ ~fallbackUsed
  /\ \E i \in 1..Len(guards) :
       /\ emptySearch(guards[i]) /\ toolUpdates[i].data.ok
       /\ \E j \in 1..Len(trace) : trace[j].step = guards[i].step /\ trace[j].ok

(***************************************************************************)
(* C36 - C38: single rules of FraudAgent.analyze                           *)
(***************************************************************************)
reported(reason) ==
  \E i \in 1..Len(analyzedReport.reasons) : analyzedReport.reasons[i] = reason

\* the number of window transactions within the w minutes ending at the
\* subject's timestamp
countWithin(w) ==
  Cardinality({i \in 1..Len(input.recentTx) :
                 /\ input.recentTx[i].ts >= input.suspect_txn[1].ts - w
                 /\ input.recentTx[i].ts <= input.suspect_txn[1].ts})

\* the sum the claim gives for the three windows
velocityPoints ==
  (IF countWithin(5) > 3 THEN 50 ELSE 0)
    + (IF countWithin(60) > 10 THEN 35 ELSE 0)
    + (IF countWithin(1440) > 30 THEN 20 ELSE 0)

priorTransactions ==
  SelectSeq(input.recentTx, LAMBDA t : t.ts < input.suspect_txn[1].ts)
\* the device ids among the most recent prior transactions
priorDeviceIds ==
  {priorTransactions[i].device_id :
     i \in {j \in 1..Len(priorTransactions) : j <= 5}} \ {"null"}
deviceRuleFired == reported("New device detected - potential account takeover risk")

\* C37: the device-change reason is reported iff the subject has a device
\* id, the most recent prior transactions (the first five before the
\* subject) carry at least one device id, they carry one single device id,
\* and the subject's differs from it; with no prior transaction it is not
\* reported and the rule adds nothing to the tally.
C37_DeviceChangeRule ==
  analyzedUnflagged =>
    /\ deviceRuleFired <=>
         /\ input.suspect_txn[1].device_id \notin {"null", ""}
         /\ priorDeviceIds # {}
         /\ Cardinality(priorDeviceIds) = 1
         /\ input.suspect_txn[1].device_id \notin priorDeviceIds
    /\ priorTransactions = <<>> => ~deviceRuleFired
    /\ input \in deviceInputs =>
         /\ tally = IF deviceRuleFired THEN 35 ELSE 0
         /\ analyzedReport.score = IF deviceRuleFired THEN "MEDIUM" ELSE "LOW"

\* C37 witness: the rule fires on six prior transactions of which the five
\* most recent carry the usual device or none and the sixth another device
C37_Witness ==
  /\ analyzedUnflagged /\ deviceRuleFired
  /\ Len(priorTransactions) = 6
  /\ priorTransactions[6].device_id = "dev_new"
  /\ priorTransactions[2].device_id = "null"
  /\ priorDeviceIds = {"dev_home"}
  /\ input.suspect_txn[1].device_id = "dev_new"

\* the country that leads the count of the window, the first seen among
\* those that lead
leadingCountry ==
  LET txs == input.recentTx
      count(c) == Cardinality({i \in 1..Len(txs) : txs[i].country = c})
      firstSeen(c) == CHOOSE i \in 1..Len(txs) :
                        txs[i].country = c /\ \A j \in 1..(i - 1) : txs[j].country # c
      leaders == {c \in {txs[i].country : i \in 1..Len(txs)} :
                    \A i \in 1..Len(txs) : count(txs[i].country) <= count(c)}
  IN CHOOSE c \in leaders : \A d \in leaders : firstSeen(c) <= firstSeen(d)
foreignRuleFired == reported("Foreign transaction")

\* C38: on a window that is not empty, the foreign-transaction reason is
\* reported iff the subject's country differs from the country with the
\* highest count in the window, the first to appear in the window among the
\* countries with that count; on the country windows the rule adds 20.
C38_CrossBorderRule ==
  (analyzedUnflagged /\ input.recentTx # <<>>) =>
    /\ foreignRuleFired <=> input.suspect_txn[1].country # leadingCountry
    /\ input \in countryInputs =>
         LET spread == reported("Foreign transactions in several countries within 24h")
         IN tally = (IF foreignRuleFired THEN 20 ELSE 0) + (IF spread THEN 40 ELSE 0)

\* C38 witness: two countries lead the count with two transactions each,
\* the subject's country is the one that appears second, and the reason is
\* reported
C38_Witness ==
  /\ analyzedUnflagged /\ foreignRuleFired
  /\ Len(input.recentTx) = 4
  /\ input.recentTx[1].country = "MT" /\ input.recentTx[2].country = "US"
  /\ input.recentTx[3].country = "US" /\ input.recentTx[4].country = "MT"
  /\ input.suspect_txn[1].country = "US"

(***************************************************************************)
(* C32: keyset pagination                                                  *)
(***************************************************************************)
\* the customer's rows in descending (ts, id) order
allMatching == pageOrder({r \in txnRows : r.customer_id = pageCustomer})

\* C32: when the client has followed nextCursor until it was null, the items
\* it read are the customer's transactions, each once, in descending
\* (ts, id) order.
C32_PagesCoverAll == pagePc = "done" => collected = allMatching

(***************************************************************************)
(* C31: idempotency keys of the action endpoints                           *)
(***************************************************************************)
executions(k) == {i \in 1..Len(caseRows) : caseRows[i].key = k}

\* C31: requests carrying the same Idempotency-Key execute the action (card
\* update, case creation, audit event) at most once, concurrent requests
\* included, and every answered request with that key carries the response
\* of the first.
C31_AtMostOncePerKey ==
  \A k \in IdempotencyKeys :
    /\ Cardinality(executions(k)) <= 1
    /\ Cardinality({i \in 1..Len(auditRows) : auditRows[i].key = k}) <= 1
    /\ \A r, q \in Requests :
         (/\ requests[r].key = k /\ requests[q].key = k
          /\ IsSome(requests[r].response) /\ IsSome(requests[q].response)
          /\ requests[r].response[1].status = "FROZEN"
          /\ requests[q].response[1].status = "FROZEN")
         => requests[r].response = requests[q].response

(***************************************************************************)
(* C40: the OTP gate of freeze-card for KYC levels LVL_0 and LVL_1         *)
(***************************************************************************)
freezes(r) == requests[r].at = "updateCard" /\ requests'[r].at = "createCase"
withoutOTP(r) == requests[r].cardId = cardId /\ requests[r].otp = ""
answered(r) == IsSome(requests[r].response)
cachedAnswer(r) ==
  /\ requests[r].key # ""
  /\ IsSome(idempotency[requests[r].key])
  /\ requests[r].response = Some([idempotency[requests[r].key][1] EXCEPT !.code = 200])
  /\ requests[r].caseId = 0
executedBy(r) ==
  \/ \E i \in 1..Len(caseRows) : caseRows[i].request = r
  \/ \E i \in 1..Len(auditRows) : auditRows[i].request = r

parkedRun == other[1]
runOf(id) == IF activeRun = id THEN thisRun ELSE parkedRun

\* what a run's own history says about degradation
degradedIn(r) ==
  \/ \E i \in 1..Len(r.guards) :
       IsSome(r.guards[i].settled) /\ r.guards[i].settled[1].ref = "fallback"
  \/ ~IsSome(selectTxn(r.input)) /\ Len(r.invoked) >= 2
  \/ /\ IsSome(r.state.fraudReport) /\ Len(r.guards) >= 1
     /\ r.guards[1].settled[1].ref = "result"
     /\ \/ ~FraudReportSchema_ok(r.guards[1].settled[1].value)
        \/ r.guards[1].settled[1].value.fallback_used = Some(TRUE)

\* the counter, the flag, the rows and the events of a run follow from its
\* own stages
ownOnly(r) ==
  /\ Len(r.trace) <= Len(r.invoked)
  /\ r.step \in {Len(r.trace), Len(r.trace) + 1}
  /\ \A i \in 1..Len(r.trace) :
       /\ r.trace[i].run_id = r.runId
       /\ r.trace[i].seq = i
       /\ r.trace[i].step = r.invoked[i]
  /\ \A i \in 1..Len(r.events) : r.events[i].run_id = r.runId
  /\ \A i \in 1..Len(r.channel) : r.channel[i].run_id = r.runId
  /\ r.runRow.id = r.runId
  /\ r.fallbackUsed => degradedIn(r)

\* a connection is written the messages of its own channel only
ownChannelOnly ==
  \A c \in Connections :
    /\ \A i \in 1..Len(conns[c].wrote) : conns[c].wrote[i] = conns[c].run
    /\ Len(conns[c].wrote) = Len(runOf(conns[c].run).channel)

\* C39: with two runs executing concurrently, the fields, rows and events of
\* a run change only in a step of that run, each run's trace counter,
\* fallback flag and working state follow from its own stages, and a stream
\* connection for one run is written only events published for that run.
C39_RunsIsolated ==
  /\ [](\A id \in RunIds : ownOnly(runOf(id)))
  /\ [](ownChannelOnly)
  /\ [][\A id \in RunIds :
          runOf(id)' # runOf(id) => (activeRun = id /\ activeRun' = id)]_vars

\* C39 witness: both runs have settled, one with the fallback flag set and
\* one without, with different counters, and each connection has been
\* written its own run's events
C39_Witness ==
  /\ thisRun.pc = "done" /\ parkedRun.pc = "done"
  /\ thisRun.fallbackUsed /\ ~parkedRun.fallbackUsed
  /\ thisRun.step # parkedRun.step
  /\ \A c \in Connections : Len(conns[c].wrote) >= 2
====
